---- MODULE Spec2Model ----
(***************************************************************************)
(* A model of the NotebookLM podcast automator                             *)
(* (src/src/notebooklm_automator).                                         *)
(*                                                                         *)
(* The browser, the two web sites and the file system are the environment: *)
(* every wait, click, read or write of the page either succeeds or raises, *)
(* and the model chooses the outcome nondeterministically at each step.    *)
(* What the program does with each outcome is translated from the code.    *)
(*                                                                         *)
(* Text is modelled as a sequence of tokens: "x in url" is membership of   *)
(* a token, url.startswith(p) is a test of the first token.  Labels of the *)
(* Japanese UI are written in ASCII transliteration.                       *)
(***************************************************************************)
EXTENDS Integers, Sequences, FiniteSets, TLC

\* ------------------------------------------------------------------------
\* Bounds of the model
\* ------------------------------------------------------------------------
MaxUrls == 3
\* The playwright instances one run may start.
MaxConnects == 3
\* The project URLs of one batch.
MaxBatch == 2
\* The calls of upload_episode.
MaxUploads == 2
\* The notebook URLs of one Streamlit run.
MaxRunUrls == 2
\* The entries of the flag, and the lines of the file, of standard input or
\* of the text area.
MaxEntries == 2
\* The calls of generate_audio on one automator.
MaxGenerates == 2

\* Python's None, where a string is expected and where a text is expected
None == "None"
NoText == << None >>

\* ------------------------------------------------------------------------
\* Inputs
\* ------------------------------------------------------------------------
\* The URLs fed to the steps: a generic web page and a video.
UrlSet == { <<"https://", "a.com">>, <<"https://", "youtu.be", "/x">> }

RECURSIVE SeqsUpTo(_, _)
SeqsUpTo(S, n) ==
    IF n = 0 THEN { <<>> }
    ELSE LET shorter == SeqsUpTo(S, n - 1)
         IN  shorter \cup { Append(s, x) : s \in { t \in shorter : Len(t) = n - 1 }, x \in S }

\* jina_prefix = "https://r.jina.ai/"
JinaPrefix == <<"https://", "r.jina.ai/">>

\* A video named by its other host, and URLs that went through the rewrite
\* of get_urls.
MoreUrls == { <<"https://", "www.", "youtube.com", "/watch">>,
              JinaPrefix \o <<"https://", "a.com">>,
              JinaPrefix \o <<"https://", "youtu.be", "/x">>,
              JinaPrefix \o <<"https://", "www.", "youtube.com", "/watch">> }

\* The lists add_link_sources is called on.
UrlLists == SeqsUpTo(UrlSet, MaxUrls) \cup { <<u>> : u \in MoreUrls }

\* Values of document.documentElement.lang the page may report.
DocLangs == { <<"j", "a">>, <<"j", "a", "-", "J", "P">>, <<"e", "n">>, <<>>, NoText }

VARIABLES
    lkUrls,      \* add_link_sources: the urls argument
    lkDocLang,   \* the lang attribute of the page's <html> tag
    lkHasCb,     \* whether a progress_callback was passed
    lkLang,      \* the local lang, set by detect_ui_language
    lkIndex,     \* the loop variable index (0-based)
    lkPc,        \* the position inside add_link_sources
    lkLog        \* what the call did to the page and the callback, in order

linkVars == <<lkUrls, lkDocLang, lkHasCb, lkLang, lkIndex, lkPc, lkLog>>

VARIABLES
    sess,        \* one NotebookLMAutomator and the browser it drives
    lastCall,    \* the last call made on the automator
    prevCall,    \* the call before it
    wPc,         \* the position inside a with NotebookLMAutomator(...) statement
    wInst,       \* the playwright instance that statement's connect started
    wBodyRaised, \* whether the body of the statement raised
    wOutcome     \* how the statement ended

sessVars == <<sess, lastCall, prevCall, wPc, wInst, wBodyRaised, wOutcome>>

VARIABLES
    dlPc,        \* the position inside download_audio
    dlCaller,    \* the call site that called download_audio
    dlUrl,       \* its project_url argument
    dlTitle,     \* its local title
    dlDesc,      \* its local description
    dlRet,       \* the tuple it returned
    dlTrace,     \* what the call did to the page and the disk, in order
    files        \* the audio files on disk

dlVars == <<dlPc, dlCaller, dlUrl, dlTitle, dlDesc, dlRet, dlTrace, files>>

VARIABLES
    pjPc,        \* the position inside process_notebooklm_project
    pjUpload,    \* its spotify_upload argument
    pjHasCb,     \* whether a progress_callback was passed
    pjResult,    \* its local result
    wkPc,        \* the position inside a Streamlit _download_audio worker
    wkApp,       \* the Streamlit app the worker belongs to
    wkRet        \* what the worker returned

siteVars == <<pjPc, pjUpload, pjHasCb, pjResult, wkPc, wkApp, wkRet>>

VARIABLES
    bUrls,       \* run_automation_with_urls: the urls_list argument
    bUpload,     \* its upload_to_spotify argument
    bHasCb,      \* whether a progress_callback was passed
    bPc,         \* the position inside run_automation_with_urls
    bI,          \* the loop variable i (1-based)
    bResult,     \* the local result of the item under way
    bTitle,      \* the local title
    bDesc,       \* the local description
    bResults,    \* the local results
    bEvents,     \* the steps of the items, in order
    bProgress,   \* the percentages handed to progress_callback, in order
    bRaw,        \* the percentages upload_episode handed to the lambda, in order
    bFaults      \* the items at which a step failed or raised

batchVars == <<bUrls, bUpload, bHasCb, bPc, bI, bResult, bTitle, bDesc, bResults,
               bEvents, bProgress, bRaw, bFaults>>

VARIABLES
    spPc,        \* the position of a SpotifyAutomator inside upload_episode
    spTemp,      \* whether its temp_dir exists on disk
    spHasCb,     \* whether a progress_callback was passed to upload_episode
    spCalls,     \* the calls of upload_episode made so far
    spOutcome,   \* where the call under way, or the last one, ended
    spRet,       \* the value of its return statement
    spTrace,     \* what the call did, in order
    spReports    \* the percentages it handed to progress_callback, in order

spVars == <<spPc, spTemp, spHasCb, spCalls, spOutcome, spRet, spTrace, spReports>>

\* The automator, its callers and the link sources.
coreVars == <<linkVars, sessVars, dlVars, siteVars, batchVars>>

VARIABLES
    stApp,       \* the Streamlit app whose upload button was pressed
    stN,         \* the number of notebook URLs of the run
    stI,         \* the loop variable i (1-based)
    stStage,     \* the worker upload_to_spotify is at: download or upload
    stResults,   \* the local results of the button handler
    rtPc,        \* the position of the main thread, inside run_in_thread or around it
    rtAlive,     \* what thread.is_alive() returned to run_in_thread
    rtFuncDone,  \* whether func had ended in the worker when join returned
    rtRet,       \* what run_in_thread returned
    rtAbandoned, \* the workers whose run_in_thread reported a timeout
    threads      \* the worker threads started so far, abandoned ones included

stVars == <<stApp, stN, stI, stStage, stResults, rtPc, rtAlive, rtFuncDone, rtRet,
            rtAbandoned, threads>>

VARIABLES
    guEntry,     \* the entry point that calls get_urls: the CLI or the Streamlit tab
    guFlag,      \* get_urls: the url_flag argument, split at its commas
    guFile,      \* its file_path argument
    guLines,     \* the lines of the file, of standard input or of the text area
    guJina,      \* its use_jina_reader argument
    guPc,        \* the position inside the entry point and get_urls
    guUrls,      \* its local urls
    guKept,      \* urls as it was before the rewrite
    guRet,       \* the list it returned
    guRaised,    \* what it raised
    guFirst      \* the list an earlier call returned, when it is fed in again

guVars == <<guEntry, guFlag, guFile, guLines, guJina, guPc, guUrls, guKept, guRet,
            guRaised, guFirst>>

VARIABLES
    gnPage,      \* generate_audio: whether self.page is set
    gnDocLang,   \* the lang attribute of the page's <html> tag
    gnLang,      \* generate_audio_overview: the local lang
    gnPc,        \* the position inside generate_audio and generate_audio_overview
    gnLog,       \* what the call did to the page, in order
    gnRet,       \* what generate_audio returned
    gnCalls      \* the calls of generate_audio made so far

gnVars == <<gnPage, gnDocLang, gnLang, gnPc, gnLog, gnRet, gnCalls>>

VARIABLES
    mtMethod,    \* the step method called last on the automator
    mtOutcome,   \* how it went on from its test of self.page
    mtAfterClose \* whether close() was the call before it

mtVars == <<mtMethod, mtOutcome, mtAfterClose>>

VARIABLES
    cliPc,       \* the position inside run_automation of main.py
    cliOut       \* the lines it has printed after the run, in order

cliVars == <<cliPc, cliOut>>

moreVars == <<gnVars, mtVars, cliVars>>

\* The parts that stand beside them.
restVars == <<spVars, stVars, guVars, moreVars>>
notSpotify == <<coreVars, stVars, guVars, moreVars>>
notStreamlit == <<coreVars, spVars, guVars, moreVars>>
notUrls == <<coreVars, spVars, stVars, moreVars>>
notGenerate == <<coreVars, spVars, stVars, guVars, mtVars, cliVars>>
notSteps == <<coreVars, spVars, stVars, guVars, gnVars, cliVars>>

vars == <<coreVars, restVars>>

\* What the actions of one part leave alone.
notLinks == <<restVars, sessVars, dlVars, siteVars, batchVars>>
notSession == <<restVars, linkVars, dlVars, siteVars, batchVars>>
notDownload == <<restVars, linkVars, sessVars, siteVars, batchVars>>

\* ------------------------------------------------------------------------
\* links.py
\* ------------------------------------------------------------------------
\* A detection that knows one Japanese tag only.
DetectUiLanguageOnlyJaJP(docLang) ==
    IF docLang = <<"j", "a", "-", "J", "P">> THEN "ja" ELSE "en"

\* lang = page.evaluate(...) or "en"; "ja" if lang.startswith("ja") else "en"
DetectUiLanguage(docLang) ==
    LET lang == IF docLang = NoText \/ docLang = <<>> THEN <<"e", "n">> ELSE docLang
    IN  IF Len(lang) >= 2 /\ lang[1] = "j" /\ lang[2] = "a" THEN "ja" ELSE "en"

get_ui_text_map ==
    [ create_notebook |-> [ en |-> "Create new notebook", ja |-> "Shinki sakusei" ],
      add_source      |-> [ en |-> "Add source",          ja |-> "Sosu wo tsuika" ],
      website         |-> [ en |-> "Website",             ja |-> "Uebusaito" ],
      youtube         |-> [ en |-> "YouTube",             ja |-> "YouTube" ],
      insert          |-> [ en |-> "Insert",              ja |-> "Sonyu" ],
      generate        |-> [ en |-> "Generate",            ja |-> "Seisei" ] ]

Contains(url, tok) == \E k \in 1..Len(url) : url[k] = tok

\* A test that knows one of the two hosts only.
SourceTypeKeyOneHost(url) ==
    IF Contains(url, "youtube.com") THEN "youtube" ELSE "website"

\* "youtube.com" in url or "youtu.be" in url
SourceTypeKey(url) ==
    IF Contains(url, "youtube.com") \/ Contains(url, "youtu.be") THEN "youtube" ELSE "website"

\* A slip in the branch: the second item is taken for the first as well.
ButtonKeyOffByOne(index) == IF index <= 1 THEN "create_notebook" ELSE "add_source"

\* index == 0: create a notebook; else: add a source
ButtonKey(index) == IF index = 0 THEN "create_notebook" ELSE "add_source"

LinksIdle ==
    /\ lkUrls = << >>
    /\ lkDocLang = NoText
    /\ lkHasCb = FALSE
    /\ lkLang = None
    /\ lkIndex = 0
    /\ lkPc = "idle"
    /\ lkLog = <<>>

\* The call add_link_sources(urls, page, progress_callback) is entered.
LinksInit ==
    /\ lkUrls \in UrlLists
    /\ lkDocLang \in DocLangs
    /\ lkHasCb \in BOOLEAN
    /\ lkLang = None
    /\ lkIndex = 0
    /\ lkPc = "detect"
    /\ lkLog = <<>>

\* A loop that goes to the button without the report of progress.
LoopHeadSkipsCallback(index) == IF index < Len(lkUrls) THEN "button" ELSE "done"

\* The for loop takes the next item, or the function returns.
LoopHead(index) == IF index < Len(lkUrls) THEN "callback" ELSE "done"

\* A handler that leaves the loop at the first failure.
LinkCaughtBreaks(step) ==
    /\ lkLog' = Append(lkLog, [act |-> "error", index |-> lkIndex, at |-> step])
    /\ lkIndex' = lkIndex
    /\ lkPc' = "done"

\* except Exception as e: print(...); the loop goes on with the next item.
LinkCaught(step) ==
    /\ lkLog' = Append(lkLog, [act |-> "error", index |-> lkIndex, at |-> step])
    /\ lkIndex' = lkIndex + 1
    /\ lkPc' = LoopHead(lkIndex + 1)

\* lang = detect_ui_language(page): outside the try, so a failure of
\* page.evaluate leaves add_link_sources.
LinkDetect ==
    /\ lkPc = "detect"
    /\ \E ok \in BOOLEAN :
         IF ok
         THEN /\ lkLang' = DetectUiLanguage(lkDocLang)
              /\ lkPc' = LoopHead(0)
         ELSE /\ lkLang' = lkLang
              /\ lkPc' = "raised"
    /\ UNCHANGED <<lkUrls, lkDocLang, lkHasCb, lkIndex, lkLog>>
    /\ UNCHANGED notLinks

\* if progress_callback: progress_callback(index, len(urls), url)
LinkCallback ==
    /\ lkPc = "callback"
    /\ IF lkHasCb
       THEN \E ok \in BOOLEAN :
              IF ok
              THEN /\ lkLog' = Append(lkLog, [act |-> "callback", index |-> lkIndex,
                                               total |-> Len(lkUrls), url |-> lkUrls[lkIndex + 1]])
                   /\ lkPc' = "button"
                   /\ lkIndex' = lkIndex
              ELSE LinkCaught("callback")
       ELSE /\ lkPc' = "button"
            /\ UNCHANGED <<lkLog, lkIndex>>
    /\ UNCHANGED <<lkUrls, lkDocLang, lkHasCb, lkLang>>
    /\ UNCHANGED notLinks

\* The create / add source button: wait_for, expect(...).to_be_enabled, click.
LinkButton ==
    /\ lkPc = "button"
    /\ \E ok \in BOOLEAN :
         IF ok
         THEN /\ lkLog' = Append(lkLog, [act |-> "click_button", index |-> lkIndex,
                                          key |-> ButtonKey(lkIndex),
                                          text |-> get_ui_text_map[ButtonKey(lkIndex)][lkLang]])
              /\ lkPc' = "chip"
              /\ lkIndex' = lkIndex
         ELSE LinkCaught("button")
    /\ UNCHANGED <<lkUrls, lkDocLang, lkHasCb, lkLang>>
    /\ UNCHANGED notLinks

\* The source type chip: wait_for, click.
LinkChip ==
    /\ lkPc = "chip"
    /\ \E ok \in BOOLEAN :
         IF ok
         THEN /\ lkLog' = Append(lkLog, [act |-> "click_chip", index |-> lkIndex,
                                          key |-> SourceTypeKey(lkUrls[lkIndex + 1]),
                                          text |-> get_ui_text_map[SourceTypeKey(lkUrls[lkIndex + 1])][lkLang]])
              /\ lkPc' = "fill"
              /\ lkIndex' = lkIndex
         ELSE LinkCaught("chip")
    /\ UNCHANGED <<lkUrls, lkDocLang, lkHasCb, lkLang>>
    /\ UNCHANGED notLinks

\* url_input.fill(url)
LinkFill ==
    /\ lkPc = "fill"
    /\ \E ok \in BOOLEAN :
         IF ok
         THEN /\ lkLog' = Append(lkLog, [act |-> "fill", index |-> lkIndex,
                                          url |-> lkUrls[lkIndex + 1]])
              /\ lkPc' = "insert"
              /\ lkIndex' = lkIndex
         ELSE LinkCaught("fill")
    /\ UNCHANGED <<lkUrls, lkDocLang, lkHasCb, lkLang>>
    /\ UNCHANGED notLinks

\* The Insert button: wait_for, expect(...).to_be_enabled, click.
LinkInsert ==
    /\ lkPc = "insert"
    /\ \E ok \in BOOLEAN :
         IF ok
         THEN /\ lkLog' = Append(lkLog, [act |-> "click_insert", index |-> lkIndex,
                                          text |-> get_ui_text_map["insert"][lkLang]])
              /\ lkPc' = "spinner"
              /\ lkIndex' = lkIndex
         ELSE LinkCaught("insert")
    /\ UNCHANGED <<lkUrls, lkDocLang, lkHasCb, lkLang>>
    /\ UNCHANGED notLinks

\* if spinner.count() > 0: spinner.wait_for(state="detached", timeout=30000)
LinkSpinner ==
    /\ lkPc = "spinner"
    /\ \E ok \in BOOLEAN :
         IF ok
         THEN /\ lkLog' = Append(lkLog, [act |-> "item_done", index |-> lkIndex])
              /\ lkIndex' = lkIndex + 1
              /\ lkPc' = LoopHead(lkIndex + 1)
         ELSE LinkCaught("spinner")
    /\ UNCHANGED <<lkUrls, lkDocLang, lkHasCb, lkLang>>
    /\ UNCHANGED notLinks

LinksNext ==
    \/ LinkDetect
    \/ LinkCallback
    \/ LinkButton
    \/ LinkChip
    \/ LinkFill
    \/ LinkInsert
    \/ LinkSpinner

\* ------------------------------------------------------------------------
\* core.py: NotebookLMAutomator, the session
\* ------------------------------------------------------------------------
\* The fields of the automator (0 is None, another number names the object)
\* and what the browser and the playwright drivers hold:
\*   playwright, browser, page   self.playwright, self.browser, self.page
\*   started                     the playwright instances started so far
\*   running                     those started and not stopped
\*   stops                       stops[p]: the calls of stop() on instance p
\*   tabsMade                    the tabs context.new_page() has opened so far
\*   openTabs                    those still open in the browser
\*   navigations                 the page.goto calls made
\*   raised                      what the last call raised ("none": it returned)
\* __init__: the three fields are None.
NewAutomator(s) == [s EXCEPT !.playwright = 0, !.browser = 0, !.page = 0, !.raised = "none"]

SessInitial ==
    [ playwright |-> 0, browser |-> 0, page |-> 0,
      started |-> 0, running |-> {}, stops |-> << >>,
      tabsMade |-> 0, openTabs |-> {}, navigations |-> 0, raised |-> "none" ]

\* page.is_closed(): the tab is no longer open in the browser.
IsClosed(s) == s.page \notin s.openTabs

\* close() that forgets to clear self.playwright after stop().
CloseOfKeepsPlaywright(s) ==
    LET s1 == IF s.page # 0 /\ ~IsClosed(s) THEN [s EXCEPT !.page = 0] ELSE s
    IN  IF s1.playwright # 0
        THEN [s1 EXCEPT !.running = @ \ {s1.playwright},
                        !.stops[s1.playwright] = @ + 1,
                        !.browser = 0,
                        !.raised = "none"]
        ELSE [s1 EXCEPT !.raised = "none"]

\* close(): try: if self.page and not self.page.is_closed(): self.page = None
\*          finally: if self.playwright: stop(); playwright = None; browser = None
\* stop() ends the driver and the CDP connection; the browser keeps its tabs.
CloseOf(s) ==
    LET s1 == IF s.page # 0 /\ ~IsClosed(s) THEN [s EXCEPT !.page = 0] ELSE s
    IN  IF s1.playwright # 0
        THEN [s1 EXCEPT !.running = @ \ {s1.playwright},
                        !.stops[s1.playwright] = @ + 1,
                        !.playwright = 0,
                        !.browser = 0,
                        !.raised = "none"]
        ELSE [s1 EXCEPT !.raised = "none"]

\* Where connect() can fail: sync_playwright().start(), connect_over_cdp,
\* the test of browser.contexts, new_page, set_viewport_size, goto.
ConnectOutcomes == {"start", "cdp", "no_context", "new_page", "viewport", "goto", "ok"}

\* Line 70, before the try: a new playwright instance runs.
Started(s) ==
    [s EXCEPT !.playwright = s.started + 1,
              !.started = @ + 1,
              !.running = @ \cup {s.started + 1},
              !.stops = Append(@, 0)]

\* self.page = context.new_page()
WithNewPage(s) ==
    [s EXCEPT !.page = s.tabsMade + 1,
              !.tabsMade = @ + 1,
              !.openTabs = @ \cup {s.tabsMade + 1}]

\* except Exception as e: self.close(); raise e
ConnectFailed(s, o) == [CloseOf(s) EXCEPT !.raised = o]

\* connect() with a handler that re-raises without calling close().
ConnectOfNoCleanup(s, o) ==
    IF o = "start" THEN [s EXCEPT !.raised = o]
    ELSE LET s1 == Started(s)
             s2 == [s1 EXCEPT !.browser = s1.playwright]
             s3 == WithNewPage(s2)
         IN  CASE o = "cdp"        -> [s1 EXCEPT !.raised = o]
               [] o = "no_context" -> [s2 EXCEPT !.raised = o]
               [] o = "new_page"   -> [s2 EXCEPT !.raised = o]
               [] o = "viewport"   -> [s3 EXCEPT !.raised = o]
               [] o = "goto"       -> [s3 EXCEPT !.raised = o]
               [] OTHER            -> [s3 EXCEPT !.navigations = @ + 1, !.raised = "none"]

\* connect(), ended at o.
ConnectOf(s, o) ==
    IF o = "start" THEN [s EXCEPT !.raised = o]
    ELSE LET s1 == Started(s)
             s2 == [s1 EXCEPT !.browser = s1.playwright]
             s3 == WithNewPage(s2)
         IN  CASE o = "cdp"        -> ConnectFailed(s1, o)
               [] o = "no_context" -> ConnectFailed(s2, o)
               [] o = "new_page"   -> ConnectFailed(s2, o)
               [] o = "viewport"   -> ConnectFailed(s3, o)
               [] o = "goto"       -> ConnectFailed(s3, o)
               [] OTHER            -> [s3 EXCEPT !.navigations = @ + 1, !.raised = "none"]

SessIdle ==
    /\ sess = SessInitial
    /\ lastCall = "init"
    /\ prevCall = "init"
    /\ wPc = "idle"
    /\ wInst = 0
    /\ wBodyRaised = FALSE
    /\ wOutcome = "none"

Called(name) ==
    /\ lastCall' = name
    /\ prevCall' = lastCall

\* A caller constructs another automator: NotebookLMAutomator(port).
Construct ==
    /\ wPc \in {"idle", "done"}
    /\ sess' = NewAutomator(sess)
    /\ Called("init")
    /\ UNCHANGED <<wPc, wInst, wBodyRaised, wOutcome>>
    /\ UNCHANGED notSession

\* A caller calls connect().
Connect ==
    /\ wPc \in {"idle", "done"}
    /\ sess.started < MaxConnects
    /\ \E o \in ConnectOutcomes :
         /\ sess' = ConnectOf(sess, o)
         /\ Called(IF o = "ok" THEN "connect_ok" ELSE "connect_failed")
    /\ UNCHANGED <<wPc, wInst, wBodyRaised, wOutcome>>
    /\ UNCHANGED notSession

\* A caller calls close(), in whatever state the automator is.
Close ==
    /\ wPc \in {"idle", "body", "done"}
    /\ sess' = CloseOf(sess)
    /\ Called("close")
    /\ UNCHANGED <<wPc, wInst, wBodyRaised, wOutcome>>
    /\ UNCHANGED notSession

\* The user closes a tab of the browser.
UserClosesTab ==
    /\ \E t \in sess.openTabs : sess' = [sess EXCEPT !.openTabs = @ \ {t}]
    /\ UNCHANGED <<lastCall, prevCall, wPc, wInst, wBodyRaised, wOutcome>>
    /\ UNCHANGED notSession

\* __exit__ that returns a true value: the exception of the body is swallowed.
WithExitSuppresses ==
    /\ wPc = "exit"
    /\ sess' = CloseOf(sess)
    /\ Called("close")
    /\ wPc' = "done"
    /\ wOutcome' = "returned"
    /\ UNCHANGED <<wInst, wBodyRaised>>
    /\ UNCHANGED notSession

\* with NotebookLMAutomator(port) as automator: __init__, then __enter__,
\* which calls connect(). When connect() raises, the statement is left with
\* that exception and __exit__ is not called.
WithEnter ==
    /\ wPc \in {"idle", "done"}
    /\ sess.started < MaxConnects
    /\ \E o \in ConnectOutcomes :
         LET s1 == ConnectOf(NewAutomator(sess), o)
         IN  /\ sess' = s1
             /\ Called(IF o = "ok" THEN "connect_ok" ELSE "connect_failed")
             /\ wInst' = IF o = "start" THEN 0 ELSE s1.started
             /\ wPc' = IF o = "ok" THEN "body" ELSE "done"
             /\ wOutcome' = IF o = "ok" THEN "none" ELSE "raised_in_connect"
    /\ wBodyRaised' = FALSE
    /\ UNCHANGED notSession

\* The body of the statement returns or raises.
WithBody ==
    /\ wPc = "body"
    /\ wBodyRaised' \in BOOLEAN
    /\ wPc' = "exit"
    /\ UNCHANGED <<sess, lastCall, prevCall, wInst, wOutcome>>
    /\ UNCHANGED notSession

\* __exit__(exc_type, exc_val, exc_tb): self.close(); it returns None, so an
\* exception of the body goes on to the caller.
WithExit ==
    /\ wPc = "exit"
    /\ sess' = CloseOf(sess)
    /\ Called("close")
    /\ wPc' = "done"
    /\ wOutcome' = IF wBodyRaised THEN "raised_in_body" ELSE "returned"
    /\ UNCHANGED <<wInst, wBodyRaised>>
    /\ UNCHANGED notSession

SessionNext ==
    \/ Construct
    \/ Connect
    \/ Close
    \/ UserClosesTab
    \/ WithEnter
    \/ WithBody
    \/ WithExit

\* ------------------------------------------------------------------------
\* core.py: download_audio
\* ------------------------------------------------------------------------
\* What h1.notebook-title and div.summary-content may hold after strip().
Titles == {"", "Notebook title"}
Descriptions == {"", "Notebook summary"}

\* A session that connect() has set up.
Connected == ConnectOf(SessInitial, "ok")

DlIdle ==
    /\ dlPc = "idle"
    /\ dlCaller = "none"
    /\ dlUrl = << >>
    /\ dlTitle = ""
    /\ dlDesc = ""
    /\ dlRet = << >>
    /\ dlTrace = << >>
    /\ files = {}

\* automator.download_audio(url, output_dir) is called from a call site.
CallDownload(caller, url) ==
    /\ dlPc' = "entry"
    /\ dlCaller' = caller
    /\ dlUrl' = url
    /\ dlTitle' = ""
    /\ dlDesc' = ""
    /\ dlRet' = << >>
    /\ dlTrace' = << >>
    /\ files' = files

\* One step of download_audio: where it goes on, and what it has done.
DlGoes(pc, trace) ==
    /\ dlPc' = pc
    /\ dlTrace' = trace
    /\ UNCHANGED <<dlCaller, dlUrl, dlRet>>

\* return ...
DlReturns(ret, trace) ==
    /\ dlPc' = "returned"
    /\ dlRet' = ret
    /\ dlTrace' = trace
    /\ UNCHANGED <<dlCaller, dlUrl>>

\* A handler that reports the call as done.
DlExceptReportsSuccess(reason, trace) ==
    DlReturns(<<TRUE, "Error downloading audio: " \o reason, "", "">>, trace)

\* except Exception as e: return False, f"Error downloading audio: {str(e)}", "", ""
DlExcept(reason, trace) ==
    DlReturns(<<FALSE, "Error downloading audio: " \o reason, "", "">>, trace)

\* f"{ULID()}.mp3" under the output directory: a name no other file has.
NewPath == "audio_" \o ToString(Cardinality(files) + 1) \o ".mp3"

\* if not self.page: return False, "Not connected ...", "", ""
DlEntry ==
    /\ dlPc = "entry"
    /\ IF sess.page = 0
       THEN DlReturns(<<FALSE, "Not connected to NotebookLM. Call connect() first.", "", "">>,
                      dlTrace)
       ELSE DlGoes("goto", dlTrace)
    /\ UNCHANGED <<dlTitle, dlDesc, files>>
    /\ UNCHANGED notDownload

\* self.page.goto(project_url, timeout=60000)
DlGoto ==
    /\ dlPc = "goto"
    /\ \E ok \in BOOLEAN :
         IF ok /\ ~IsClosed(sess)
         THEN DlGoes("title", Append(dlTrace, "navigated"))
         ELSE DlExcept("goto", dlTrace)
    /\ UNCHANGED <<dlTitle, dlDesc, files>>
    /\ UNCHANGED notDownload

\* title = self.get_notebook_title()
DlTitle ==
    /\ dlPc = "title"
    /\ \/ \E t \in Titles :
            /\ dlTitle' = t
            /\ DlGoes("summary", Append(dlTrace, "title"))
       \/ /\ dlTitle' = dlTitle
          /\ DlExcept("h1.notebook-title", dlTrace)
    /\ UNCHANGED <<dlDesc, files>>
    /\ UNCHANGED notDownload

\* description = self.get_notebook_summary()
DlSummary ==
    /\ dlPc = "summary"
    /\ \/ \E d \in Descriptions :
            /\ dlDesc' = d
            /\ DlGoes("load", Append(dlTrace, "description"))
       \/ /\ dlDesc' = dlDesc
          /\ DlExcept("div.summary-content", dlTrace)
    /\ UNCHANGED <<dlTitle, files>>
    /\ UNCHANGED notDownload

\* if load_button.is_visible(): load_button.click(); wait_for_selector(play, 120000)
DlLoad ==
    /\ dlPc = "load"
    /\ \E o \in {"hidden", "loaded", "click_raised", "wait_raised"} :
         CASE o = "hidden"       -> DlGoes("player", dlTrace)
           [] o = "loaded"       -> DlGoes("player", Append(dlTrace, "load"))
           [] o = "click_raised" -> DlExcept("load click", dlTrace)
           [] OTHER              -> DlExcept("load wait", Append(dlTrace, "load"))
    /\ UNCHANGED <<dlTitle, dlDesc, files>>
    /\ UNCHANGED notDownload

\* self.page.wait_for_selector(play, timeout=30000)
DlPlayer ==
    /\ dlPc = "player"
    /\ \E ok \in BOOLEAN :
         IF ok
         THEN DlGoes("options", Append(dlTrace, "player_ready"))
         ELSE DlExcept("play button", dlTrace)
    /\ UNCHANGED <<dlTitle, dlDesc, files>>
    /\ UNCHANGED notDownload

\* The options step with the test of is_visible() left out: it clicks anyway.
DlOptionsClicksBlind ==
    /\ dlPc = "options"
    /\ \E o \in {"hidden", "clicked", "click_raised"} :
         CASE o = "hidden"  -> DlGoes("menu", Append(Append(dlTrace, "options_hidden"), "menu_opened"))
           [] o = "clicked" -> DlGoes("menu", Append(Append(dlTrace, "options_seen"), "menu_opened"))
           [] OTHER         -> DlExcept("options click", Append(dlTrace, "options_seen"))
    /\ UNCHANGED <<dlTitle, dlDesc, files>>
    /\ UNCHANGED notDownload

\* if not options_button.is_visible(): return False, "Could not find audio
\* options button", "", ""; options_button.click()
DlOptions ==
    /\ dlPc = "options"
    /\ \E o \in {"hidden", "clicked", "click_raised"} :
         CASE o = "hidden"  -> DlReturns(<<FALSE, "Could not find audio options button", "", "">>,
                                         Append(dlTrace, "options_hidden"))
           [] o = "clicked" -> DlGoes("menu", Append(Append(dlTrace, "options_seen"), "menu_opened"))
           [] OTHER         -> DlExcept("options click", Append(dlTrace, "options_seen"))
    /\ UNCHANGED <<dlTitle, dlDesc, files>>
    /\ UNCHANGED notDownload

\* if not download_link.is_visible(): return False, "Could not find download
\* link in the menu", "", ""
DlMenu ==
    /\ dlPc = "menu"
    /\ \E visible \in BOOLEAN :
         IF visible
         THEN DlGoes("href", dlTrace)
         ELSE DlReturns(<<FALSE, "Could not find download link in the menu", "", "">>, dlTrace)
    /\ UNCHANGED <<dlTitle, dlDesc, files>>
    /\ UNCHANGED notDownload

\* download_url = download_link.get_attribute("href"); if not download_url: ...
DlHref ==
    /\ dlPc = "href"
    /\ \E href \in {"None", "", "https://audio", "raised"} :
         CASE href = "raised"     -> DlExcept("get_attribute", dlTrace)
           [] href \in {"None", ""} ->
                DlReturns(<<FALSE, "Download link has no href attribute", "", "">>,
                          Append(dlTrace, "href_read"))
           [] OTHER -> DlGoes("write", Append(Append(dlTrace, "href_read"), "href_obtained"))
    /\ UNCHANGED <<dlTitle, dlDesc, files>>
    /\ UNCHANGED notDownload

\* The output directory, the cookies, session.get, raise_for_status and the
\* chunks written to file_path; return True, str(file_path), title, description
DlWrite ==
    /\ dlPc = "write"
    /\ \E o \in {"written", "request_raised", "write_raised"} :
         CASE o = "written" ->
                /\ files' = files \cup {NewPath}
                /\ DlReturns(<<TRUE, NewPath, dlTitle, dlDesc>>, Append(dlTrace, "file_written"))
           [] o = "request_raised" ->
                /\ files' = files
                /\ DlExcept("request", dlTrace)
           [] OTHER ->
                /\ files' = files \cup {NewPath}
                /\ DlExcept("write", Append(dlTrace, "file_partial"))
    /\ UNCHANGED <<dlTitle, dlDesc>>
    /\ UNCHANGED notDownload

\* ------------------------------------------------------------------------
\* core.py: upload_to_spotify, and spotify.py: upload_episode as one call
\* ------------------------------------------------------------------------
\* How a call of upload_to_spotify can end: tempfile.mkdtemp raises in
\* SpotifyAutomator.__init__, the progress callback raises at the first or at
\* the last report, or one of the four stages raises.
UploadOutcomes ==
    {"ok", "mkdtemp", "cb_start", "navigate", "file_missing", "file_upload",
     "upload_alert", "details", "publish", "cb_end"}

\* except PlaywrightError / except Exception / return True, ...
UploadMessage(o) ==
    CASE o = "ok" -> "Successfully uploaded episode to Spotify"
      [] o \in {"navigate", "file_upload", "details", "publish"} ->
            "Playwright error during Spotify upload: " \o o
      [] OTHER -> "Unexpected error during Spotify upload: " \o o

\* The outcomes the environment allows: the callback can raise only when the
\* caller passed one, and os.path.exists(file_path) decides "file_missing".
UploadPossible(o, path, hasCb) ==
    /\ o \in {"cb_start", "cb_end"} => hasCb
    /\ o = "file_missing" => path \notin files
    /\ o \in {"ok", "file_upload", "upload_alert", "details", "publish", "cb_end"} => path \in files

\* The percentages upload_episode hands to its callback: 0 first, 100 last.
UploadReports(o) ==
    CASE o = "mkdtemp" -> << >>
      [] o \in {"ok", "cb_end"} -> <<0, 100>>
      [] OTHER -> <<0>>

\* upload_to_spotify(audio_file_path, title, description, progress_callback)
UploadToSpotify(page, o) ==
    IF page = 0
    THEN [ raised |-> FALSE, reports |-> << >>,
           ret |-> <<FALSE, "Not connected to browser. Call connect() first.">> ]
    ELSE IF o = "mkdtemp"
    THEN [ raised |-> TRUE, reports |-> << >>, ret |-> <<FALSE, "mkdtemp">> ]
    ELSE [ raised |-> FALSE, reports |-> UploadReports(o),
           ret |-> <<o = "ok", UploadMessage(o)>> ]

\* a, b, ... = value: ValueError unless the tuple has as many values as names.
UnpackRaises(value, names) == Len(value) # names

\* ------------------------------------------------------------------------
\* spotify.py: SpotifyAutomator, step by step
\* ------------------------------------------------------------------------
\* The audio file a caller hands to upload_episode.
AudioPath == "audio_1.mp3"

SpIdle ==
    /\ spPc = "none"
    /\ spTemp = FALSE
    /\ spHasCb = FALSE
    /\ spCalls = 0
    /\ spOutcome = "none"
    /\ spRet = << >>
    /\ spTrace = << >>
    /\ spReports = << >>

\* SpotifyAutomator(page): self.temp_dir = Path(tempfile.mkdtemp(...))
SpConstruct ==
    /\ spPc = "none"
    /\ \E ok \in BOOLEAN :
         IF ok
         THEN spPc' = "ready" /\ spTemp' = TRUE /\ spOutcome' = spOutcome
         ELSE spPc' = "init_raised" /\ spTemp' = FALSE /\ spOutcome' = "mkdtemp"
    /\ UNCHANGED <<spHasCb, spCalls, spRet, spTrace, spReports>>
    /\ UNCHANGED notSpotify

\* upload_episode(audio_file_path, title, description, progress_callback) is
\* called, on a new automator or on one whose earlier upload has returned.
SpCall ==
    /\ spPc \in {"ready", "returned"}
    /\ spCalls < MaxUploads
    /\ spHasCb' \in BOOLEAN
    /\ spCalls' = spCalls + 1
    /\ spPc' = "start"
    /\ spOutcome' = "none"
    /\ spRet' = << >>
    /\ spTrace' = << >>
    /\ spReports' = << >>
    /\ UNCHANGED spTemp
    /\ UNCHANGED notSpotify

\* The next stage is reached.
SpGoes(pc, trace) ==
    /\ spPc' = pc
    /\ spTrace' = trace
    /\ UNCHANGED <<spOutcome, spRet>>

\* An except clause that lets the exception leave upload_episode.
SpExceptReraises(o, trace) ==
    /\ spPc' = "cleanup"
    /\ spOutcome' = o
    /\ spRet' = << >>
    /\ spTrace' = trace

\* except PlaywrightError as e / except Exception as e: return False,
\* error_msg; the finally clause is still to run.
SpExcept(o, trace) ==
    /\ spPc' = "cleanup"
    /\ spOutcome' = o
    /\ spRet' = <<FALSE, UploadMessage(o)>>
    /\ spTrace' = trace

\* self._update_progress(progress_callback, "Starting ...", 0)
SpStart ==
    /\ spPc = "start"
    /\ \E cbRaises \in BOOLEAN :
         /\ spReports' = IF spHasCb THEN Append(spReports, 0) ELSE spReports
         /\ IF cbRaises /\ spHasCb
            THEN SpExcept("cb_start", spTrace)
            ELSE SpGoes("navigate", spTrace)
    /\ UNCHANGED <<spTemp, spHasCb, spCalls>>
    /\ UNCHANGED notSpotify

\* self._navigate_to_upload_page(): goto, wait_for_selector
SpNavigate ==
    /\ spPc = "navigate"
    /\ \E ok \in BOOLEAN :
         IF ok
         THEN SpGoes("upload", spTrace \o <<"navigate", "navigate_done">>)
         ELSE SpExcept("navigate", Append(spTrace, "navigate"))
    /\ UNCHANGED <<spTemp, spHasCb, spCalls, spReports>>
    /\ UNCHANGED notSpotify

\* An upload step that opens the file chooser before it looks for the file.
SpUploadFileChoosesFirst ==
    /\ spPc = "upload"
    /\ LET begun == Append(spTrace, "upload_file")
           chosen == Append(begun, "file_chooser")
       IN  IF AudioPath \notin files
           THEN SpExcept("file_missing", chosen)
           ELSE \E o \in {"ok", "file_upload", "upload_alert"} :
                  IF o = "ok"
                  THEN SpGoes("details", Append(chosen, "upload_file_done"))
                  ELSE SpExcept(o, chosen)
    /\ UNCHANGED <<spTemp, spHasCb, spCalls, spReports>>
    /\ UNCHANGED notSpotify

\* self._upload_audio_file(audio_file_path): FileNotFoundError when the file
\* is missing; then the click that opens the file chooser, set_files and the
\* wait, which can raise; a failed wait with an alert text raises
\* Exception("Upload failed with error: ...").
SpUploadFile ==
    /\ spPc = "upload"
    /\ LET begun == Append(spTrace, "upload_file")
           chosen == Append(begun, "file_chooser")
       IN  IF AudioPath \notin files
           THEN SpExcept("file_missing", begun)
           ELSE \E o \in {"ok", "file_upload", "upload_alert"} :
                  IF o = "ok"
                  THEN SpGoes("details", Append(chosen, "upload_file_done"))
                  ELSE SpExcept(o, chosen)
    /\ UNCHANGED <<spTemp, spHasCb, spCalls, spReports>>
    /\ UNCHANGED notSpotify

\* self._fill_episode_details(title, description)
SpDetails ==
    /\ spPc = "details"
    /\ \E ok \in BOOLEAN :
         IF ok
         THEN SpGoes("publish", spTrace \o <<"fill_details", "fill_details_done">>)
         ELSE SpExcept("details", Append(spTrace, "fill_details"))
    /\ UNCHANGED <<spTemp, spHasCb, spCalls, spReports>>
    /\ UNCHANGED notSpotify

\* self._publish_episode()
SpPublish ==
    /\ spPc = "publish"
    /\ \E ok \in BOOLEAN :
         IF ok
         THEN SpGoes("finish", spTrace \o <<"publish", "publish_done">>)
         ELSE SpExcept("publish", Append(spTrace, "publish"))
    /\ UNCHANGED <<spTemp, spHasCb, spCalls, spReports>>
    /\ UNCHANGED notSpotify

\* self._update_progress(progress_callback, "... completed ...", 100);
\* return True, "Successfully uploaded episode to Spotify"
SpFinish ==
    /\ spPc = "finish"
    /\ \E cbRaises \in BOOLEAN :
         /\ spReports' = IF spHasCb THEN Append(spReports, 100) ELSE spReports
         /\ IF cbRaises /\ spHasCb
            THEN SpExcept("cb_end", spTrace)
            ELSE /\ spPc' = "cleanup"
                 /\ spOutcome' = "ok"
                 /\ spRet' = <<TRUE, UploadMessage("ok")>>
                 /\ spTrace' = spTrace
    /\ UNCHANGED <<spTemp, spHasCb, spCalls>>
    /\ UNCHANGED notSpotify

\* A _cleanup() that leaves the directory on disk.
SpCleanupKeepsDir(temp, trace) ==
    [ temp |-> temp, trace |-> Append(trace, "cleanup_nothing") ]

\* _cleanup(): removes the files and the directory when the directory is there.
SpCleanupOf(temp, trace) ==
    [ temp |-> FALSE,
      trace |-> Append(trace, IF temp THEN "cleanup_removed" ELSE "cleanup_nothing") ]

\* finally: self._cleanup(): if hasattr(self, 'temp_dir') and
\* self.temp_dir.exists(): unlink the files, rmdir. The value of the return
\* statement then reaches the caller.
SpCleanup ==
    /\ spPc = "cleanup"
    /\ spTemp' = SpCleanupOf(spTemp, spTrace).temp
    /\ spTrace' = SpCleanupOf(spTemp, spTrace).trace
    /\ spPc' = IF spRet = << >> THEN "raised" ELSE "returned"
    /\ UNCHANGED <<spHasCb, spCalls, spOutcome, spRet, spReports>>
    /\ UNCHANGED notSpotify

\* The caller drops the automator; the next upload constructs another.
SpDrop ==
    /\ spPc \in {"returned", "raised", "init_raised"}
    /\ spCalls < MaxUploads
    /\ spPc' = "none"
    /\ UNCHANGED <<spTemp, spHasCb, spCalls, spOutcome, spRet, spTrace, spReports>>
    /\ UNCHANGED notSpotify

\* ------------------------------------------------------------------------
\* streamlit_app.py and spotify_streamlit_app.py: run_in_thread,
\* upload_to_spotify and the loop over the notebook URLs
\* ------------------------------------------------------------------------
StApps == {"streamlit_app", "spotify_streamlit_app"}

TimedOut == <<FALSE, "Operation timed out after 5 minutes">>
NoMessage == <<FALSE, "Operation failed with no error message">>

StIdle ==
    /\ stApp = "none"
    /\ stN = 0
    /\ stI = 0
    /\ stStage = "none"
    /\ stResults = << >>
    /\ rtPc = "idle"
    /\ rtAlive = FALSE
    /\ rtFuncDone = FALSE
    /\ rtRet = << >>
    /\ rtAbandoned = {}
    /\ threads = << >>

\* The button handler has the list of URLs and enters its loop:
\* for i, url in enumerate(urls, 1): upload_to_spotify(url, port, ...)
StInit ==
    /\ stApp \in StApps
    /\ stN \in 1..MaxRunUrls
    /\ stI = 1
    /\ stStage = "download"
    /\ stResults = << >>
    /\ rtPc = "call"
    /\ rtAlive = FALSE
    /\ rtFuncDone = FALSE
    /\ rtRet = << >>
    /\ rtAbandoned = {}
    /\ threads = << >>

\* The thread run_in_thread started last.
Current == Len(threads)

\* thread = threading.Thread(target=wrapper, ...); thread.daemon = True;
\* thread.start(); the caller then waits in thread.join(timeout=300).
RtStart ==
    /\ rtPc = "call"
    /\ threads' = Append(threads, [kind |-> stStage, item |-> stI, pc |-> "start",
                                   result |-> << >>, put |-> << >>, ctx |-> None, page |-> 0])
    /\ rtPc' = "join"
    /\ rtRet' = << >>
    /\ UNCHANGED <<stApp, stN, stI, stStage, stResults, rtAlive, rtFuncDone, rtAbandoned>>
    /\ UNCHANGED notStreamlit

\* A count that leaves out the pages of the abandoned workers, so that the
\* next worker takes the page of one of them.
PagesOpenedNotAbandoned ==
    Cardinality({ w \in 1..Len(threads) : threads[w].page # 0 /\ w \notin rtAbandoned })

\* The pages the workers have opened so far.
PagesOpened == Cardinality({ w \in 1..Len(threads) : threads[w].page # 0 })

\* The worker enters _download_audio or _upload_to_spotify:
\* with NotebookLMAutomator(port, ...) as automator. streamlit_app.py passes
\* two arguments to a constructor that takes one: TypeError, caught by the
\* function's own handler. Otherwise connect() takes browser.contexts[0] and
\* opens a page of its own in it, or fails.
ThEnter ==
    \E w \in 1..Len(threads) :
      /\ threads[w].pc = "start"
      /\ IF stApp = "streamlit_app"
         THEN threads' = [threads EXCEPT ![w].pc = "func_done",
                                         ![w].result = <<TRUE, <<FALSE, "TypeError">>>>]
         ELSE \E ok \in BOOLEAN :
                IF ok
                THEN threads' = [threads EXCEPT ![w].pc = "driving",
                                                ![w].ctx = "contexts[0]",
                                                ![w].page = PagesOpened + 1]
                ELSE threads' = [threads EXCEPT ![w].pc = "func_done",
                                                ![w].result = <<TRUE, <<FALSE, "connect">>>>]
      /\ UNCHANGED <<stApp, stN, stI, stStage, stResults, rtPc, rtAlive, rtFuncDone, rtRet>>
      /\ UNCHANGED rtAbandoned
      /\ UNCHANGED notStreamlit

\* What wrapper gets from func: result = func(*args, **kwargs) returns the
\* function's pair, or func raises an Exception, or it raises something
\* that is no Exception (SystemExit) and the thread dies without a put.
FuncEnds == { <<TRUE, <<TRUE, "done">>>>, <<TRUE, <<FALSE, "failed">>>>,
              <<FALSE, "exception">>, << >> }

\* The worker drives the browser to the end of its function; the with
\* statement closes its session.
ThWork ==
    \E w \in 1..Len(threads) :
      /\ threads[w].pc = "driving"
      /\ \E r \in FuncEnds :
           threads' = [threads EXCEPT ![w].pc = IF r = << >> THEN "dying" ELSE "func_done",
                                      ![w].result = r]
      /\ UNCHANGED <<stApp, stN, stI, stStage, stResults, rtPc, rtAlive, rtFuncDone, rtRet>>
      /\ UNCHANGED rtAbandoned
      /\ UNCHANGED notStreamlit

\* q.put((True, result)) / q.put((False, str(e))), into the queue of the
\* call that started the worker.
ThPut ==
    \E w \in 1..Len(threads) :
      /\ threads[w].pc = "func_done"
      /\ threads' = [threads EXCEPT ![w].pc = "dying", ![w].put = <<threads[w].result>>]
      /\ UNCHANGED <<stApp, stN, stI, stStage, stResults, rtPc, rtAlive, rtFuncDone, rtRet>>
      /\ UNCHANGED rtAbandoned
      /\ UNCHANGED notStreamlit

\* wrapper returns and the thread ends: is_alive() is false from now on.
ThExit ==
    \E w \in 1..Len(threads) :
      /\ threads[w].pc = "dying"
      /\ threads' = [threads EXCEPT ![w].pc = "dead"]
      /\ UNCHANGED <<stApp, stN, stI, stStage, stResults, rtPc, rtAlive, rtFuncDone, rtRet>>
      /\ UNCHANGED rtAbandoned
      /\ UNCHANGED notStreamlit

\* Whether func has returned or raised in thread w.
FuncDone(w) == threads[w].pc \in {"func_done", "dying", "dead"}

\* thread.join(timeout=300) returns because the thread has ended.
RtJoined ==
    /\ rtPc = "join"
    /\ threads[Current].pc = "dead"
    /\ rtPc' = "joined"
    /\ rtFuncDone' = TRUE
    /\ UNCHANGED <<stApp, stN, stI, stStage, stResults, rtAlive, rtRet, rtAbandoned, threads>>
    /\ UNCHANGED notStreamlit

\* thread.join(timeout=300) returns because five minutes have passed.
RtJoinTimeout ==
    /\ rtPc = "join"
    /\ threads[Current].pc # "dead"
    /\ rtPc' = "joined"
    /\ rtFuncDone' = FuncDone(Current)
    /\ UNCHANGED <<stApp, stN, stI, stStage, stResults, rtAlive, rtRet, rtAbandoned, threads>>
    /\ UNCHANGED notStreamlit

\* A run_in_thread that looks at the queue first.
RtResultQueueFirst(alive, put) ==
    IF put # << >> THEN put[1]
    ELSE IF alive THEN TimedOut
    ELSE NoMessage

\* if thread.is_alive(): return False, "Operation timed out after 5 minutes"
\* if q.empty(): return False, "Operation failed with no error message"
\* return q.get()
RtResult(alive, put) ==
    IF alive THEN TimedOut
    ELSE IF put = << >> THEN NoMessage
    ELSE put[1]

\* The tests after the join, and the return of run_in_thread. Nothing is
\* done to the thread.
RtTest ==
    /\ rtPc = "joined"
    /\ rtAlive' = (threads[Current].pc # "dead")
    /\ rtRet' = RtResult(threads[Current].pc # "dead", threads[Current].put)
    /\ rtAbandoned' = IF rtRet' = TimedOut THEN rtAbandoned \cup {Current} ELSE rtAbandoned
    /\ rtPc' = "returned"
    /\ UNCHANGED <<stApp, stN, stI, stStage, stResults, rtFuncDone, threads>>
    /\ UNCHANGED notStreamlit

\* upload_to_spotify returns (success, message) and the loop appends it and
\* takes the next URL.
StNextUrl(result) ==
    /\ stResults' = Append(stResults, result)
    /\ stI' = stI + 1
    /\ stStage' = IF stI < stN THEN "download" ELSE "none"
    /\ rtPc' = IF stI < stN THEN "call" ELSE "done"

\* A script that goes on to the upload whatever the download has given.
StAfterUploadsAnyway ==
    /\ rtPc = "returned"
    /\ IF ~rtRet[1]
       THEN StNextUrl(<<FALSE, IF stStage = "download" THEN rtRet[2]
                               ELSE "Failed to upload to Spotify: " \o rtRet[2]>>)
       ELSE LET inner == rtRet[2]
            IN  IF stStage = "download"
                THEN /\ stStage' = "upload"
                     /\ rtPc' = "call"
                     /\ UNCHANGED <<stResults, stI>>
                ELSE IF inner[1]
                     THEN StNextUrl(<<TRUE, inner[2]>>)
                     ELSE StNextUrl(<<FALSE, "Failed to upload to Spotify: " \o inner[2]>>)
    /\ UNCHANGED <<stApp, stN, rtAlive, rtFuncDone, rtRet, rtAbandoned, threads>>
    /\ UNCHANGED notStreamlit

\* upload_to_spotify after a run_in_thread has returned: after the download
\* it unpacks the worker's pair and goes on to the upload; after the upload
\* it returns.
StAfter ==
    /\ rtPc = "returned"
    /\ IF ~rtRet[1]
       THEN StNextUrl(<<FALSE, IF stStage = "download" THEN rtRet[2]
                               ELSE "Failed to upload to Spotify: " \o rtRet[2]>>)
       ELSE LET inner == rtRet[2]
            IN  IF stStage = "download"
                THEN IF inner[1]
                     THEN /\ stStage' = "upload"
                          /\ rtPc' = "call"
                          /\ UNCHANGED <<stResults, stI>>
                     ELSE StNextUrl(<<FALSE, "Failed to download audio: " \o inner[2]>>)
                ELSE IF inner[1]
                     THEN StNextUrl(<<TRUE, inner[2]>>)
                     ELSE StNextUrl(<<FALSE, "Failed to upload to Spotify: " \o inner[2]>>)
    /\ UNCHANGED <<stApp, stN, rtAlive, rtFuncDone, rtRet, rtAbandoned, threads>>
    /\ UNCHANGED notStreamlit

\* ------------------------------------------------------------------------
\* url_handler.py: get_urls, and the entry points that call it
\* ------------------------------------------------------------------------
\* A run of white space.
Blank == " "

\* What stands between two commas of the flag, or on one line of the file,
\* of standard input or of the text area: nothing, white space, a URL with
\* white space around it, a URL that has the prefix already.
Entries == { << >>, <<Blank>>, <<Blank, "https://", "a.com", Blank>>,
             JinaPrefix \o <<"https://", "b.com">> }

EntryLists == SeqsUpTo(Entries, MaxEntries)

\* str.strip()
RECURSIVE LStrip(_)
LStrip(s) == IF s # << >> /\ Head(s) = Blank THEN LStrip(Tail(s)) ELSE s

RECURSIVE RStrip(_)
RStrip(s) == IF s # << >> /\ s[Len(s)] = Blank THEN RStrip(SubSeq(s, 1, Len(s) - 1)) ELSE s

Strip(s) == RStrip(LStrip(s))

\* [url.strip() for url in ...]
StripAll(list) == [k \in 1..Len(list) |-> Strip(list[k])]

\* [url for url in urls if url]
NonEmpty(list) == SelectSeq(list, LAMBDA u : u # << >>)

\* url.startswith(prefix)
StartsWith(url, prefix) ==
    /\ Len(url) >= Len(prefix)
    /\ SubSeq(url, 1, Len(prefix)) = prefix

\* f"{jina_prefix}{url}" if not url.startswith(jina_prefix) else url
JinaOne(url) == IF ~StartsWith(url, JinaPrefix) THEN JinaPrefix \o url ELSE url

\* A rewrite that puts the prefix before every URL.
JinaRewriteAlways(urls) == [k \in 1..Len(urls) |-> JinaPrefix \o urls[k]]

\* urls = [... for url in urls]
JinaRewrite(urls) == [k \in 1..Len(urls) |-> JinaOne(urls[k])]

\* if url_flag: the flag is given and is not the empty string. The flag is
\* held as what split(',') makes of it; the empty list stands for None.
Truthy(flag) == flag # << >> /\ flag # << << >> >>

GuIdle ==
    /\ guEntry = "none"
    /\ guFlag = << >>
    /\ guFile = None
    /\ guLines = << >>
    /\ guJina = FALSE
    /\ guPc = "idle"
    /\ guUrls = << >>
    /\ guKept = << >>
    /\ guRet = << >>
    /\ guRaised = "none"
    /\ guFirst = << >>

\* The command line is parsed, or the button of the NotebookLM tab is
\* pressed with the text area filled.
GuInit ==
    /\ guEntry \in {"cli", "streamlit"}
    /\ guFlag \in IF guEntry = "cli" THEN EntryLists ELSE { << >> }
    /\ guFile \in IF guEntry = "cli" THEN {None, "missing.txt", "urls.txt"} ELSE {None}
    /\ guLines \in EntryLists
    /\ guJina \in BOOLEAN
    /\ guPc = "entry"
    /\ guUrls = << >>
    /\ guKept = << >>
    /\ guRet = << >>
    /\ guRaised = "none"
    /\ guFirst = << >>

\* main.py calls get_urls(args.urls, args.file, args.jina_reader).
\* process_notebooklm_urls: raw_urls = [url.strip() for url in
\* urls_text.split('\n') if url.strip()]; if not raw_urls: st.error(...);
\* return; get_urls(url_flag=",".join(raw_urls), ...)
GuEntry ==
    /\ guPc = "entry"
    /\ IF guEntry = "cli"
       THEN /\ guPc' = "start"
            /\ guFlag' = guFlag
       ELSE LET raw_urls == NonEmpty(StripAll(guLines))
            IN  IF raw_urls = << >>
                THEN /\ guPc' = "rejected"
                     /\ guFlag' = guFlag
                ELSE /\ guPc' = "start"
                     /\ guFlag' = raw_urls
    /\ UNCHANGED <<guEntry, guFile, guLines, guJina, guUrls, guKept, guRet, guRaised, guFirst>>
    /\ UNCHANGED notUrls

\* urls = []; then the flag, split at the commas and stripped; or the lines
\* of the file, stripped, the empty ones left out (FileNotFoundError when
\* the file is not there); or the lines of standard input, likewise.
GuRead ==
    /\ guPc = "start"
    /\ IF Truthy(guFlag)
       THEN /\ guUrls' = StripAll(guFlag)
            /\ guPc' = "filter"
            /\ guRaised' = guRaised
       ELSE IF guFile = "missing.txt"
       THEN /\ guUrls' = << >>
            /\ guPc' = "raised"
            /\ guRaised' = "FileNotFoundError"
       ELSE /\ guUrls' = NonEmpty(StripAll(guLines))
            /\ guPc' = "filter"
            /\ guRaised' = guRaised
    /\ UNCHANGED <<guEntry, guFlag, guFile, guLines, guJina, guKept, guRet, guFirst>>
    /\ UNCHANGED notUrls

\* urls = [url for url in urls if url]; if not urls: raise ValueError(...)
GuFilter ==
    /\ guPc = "filter"
    /\ guUrls' = NonEmpty(guUrls)
    /\ guKept' = NonEmpty(guUrls)
    /\ IF NonEmpty(guUrls) = << >>
       THEN /\ guPc' = "raised"
            /\ guRaised' = "ValueError"
       ELSE /\ guPc' = "jina"
            /\ guRaised' = guRaised
    /\ UNCHANGED <<guEntry, guFlag, guFile, guLines, guJina, guRet, guFirst>>
    /\ UNCHANGED notUrls

\* if use_jina_reader: urls = [...]; return urls
GuJina ==
    /\ guPc = "jina"
    /\ guUrls' = IF guJina THEN JinaRewrite(guUrls) ELSE guUrls
    /\ guRet' = IF guJina THEN JinaRewrite(guUrls) ELSE guUrls
    /\ guPc' = "returned"
    /\ UNCHANGED <<guEntry, guFlag, guFile, guLines, guJina, guKept, guRaised, guFirst>>
    /\ UNCHANGED notUrls

\* The entry point goes on with the list it got: main.py calls
\* run_automation_with_urls(urls_list, ...), process_notebooklm_urls enters
\* with NotebookLMAutomator(...) and calls process_urls(urls_list, ...).
GuProceed ==
    /\ guPc = "returned"
    /\ guPc' = "working"
    /\ UNCHANGED <<guEntry, guFlag, guFile, guLines, guJina, guUrls, guKept, guRet, guRaised,
                   guFirst>>
    /\ UNCHANGED notUrls

\* main.py: except ValueError / except FileNotFoundError: sys.exit(1).
\* process_notebooklm_urls has no handler around get_urls.
GuLeave ==
    /\ guPc = "raised"
    /\ guPc' = IF guEntry = "cli" THEN "exited" ELSE "propagated"
    /\ UNCHANGED <<guEntry, guFlag, guFile, guLines, guJina, guUrls, guKept, guRet, guRaised,
                   guFirst>>
    /\ UNCHANGED notUrls

\* The list the run has shown (st.markdown of each URL, or the printed
\* progress lines) is given to get_urls once more, joined by commas, with
\* the same option.
GuAgain ==
    /\ guPc = "working"
    /\ guFirst = << >>
    /\ guFirst' = guRet
    /\ guFlag' = guRet
    /\ guPc' = "start"
    /\ guUrls' = << >>
    /\ guKept' = << >>
    /\ guRet' = << >>
    /\ UNCHANGED <<guEntry, guFile, guLines, guJina, guRaised>>
    /\ UNCHANGED notUrls

\* ------------------------------------------------------------------------
\* links.py: generate_audio_overview, and core.py: generate_audio
\* ------------------------------------------------------------------------
GnIdle ==
    /\ gnPage = FALSE
    /\ gnDocLang = NoText
    /\ gnLang = None
    /\ gnPc = "idle"
    /\ gnLog = << >>
    /\ gnRet = None
    /\ gnCalls = 0

\* An automator, connected or not, and the page it may hold.
GnInit ==
    /\ gnPage \in BOOLEAN
    /\ gnDocLang \in DocLangs
    /\ gnLang = None
    /\ gnPc = "idle"
    /\ gnLog = << >>
    /\ gnRet = None
    /\ gnCalls = 0

\* generate_audio(): if not self.page: raise ValueError(...);
\* generate_audio_overview(self.page)
GnCall ==
    /\ gnPc \in {"idle", "returned", "raised"}
    /\ gnCalls < MaxGenerates
    /\ gnCalls' = gnCalls + 1
    /\ gnPc' = IF gnPage THEN "detect" ELSE "raised"
    /\ gnLog' = << >>
    /\ gnRet' = None
    /\ gnLang' = None
    /\ UNCHANGED <<gnPage, gnDocLang>>
    /\ UNCHANGED notGenerate

\* except Exception as e: print(...); the function returns.
GnCaught(step) ==
    /\ gnLog' = Append(gnLog, [act |-> "error", at |-> step])
    /\ gnPc' = "return"

\* lang = detect_ui_language(page); generate_text = ui_text["generate"][lang]
GnDetect ==
    /\ gnPc = "detect"
    /\ \E ok \in BOOLEAN :
         IF ok
         THEN /\ gnLang' = DetectUiLanguage(gnDocLang)
              /\ gnPc' = "enabled"
              /\ gnLog' = gnLog
         ELSE /\ gnLang' = gnLang
              /\ GnCaught("detect")
    /\ UNCHANGED <<gnPage, gnDocLang, gnRet, gnCalls>>
    /\ UNCHANGED notGenerate

\* expect(generate_button).to_be_enabled()
GnEnabled ==
    /\ gnPc = "enabled"
    /\ \E ok \in BOOLEAN :
         IF ok
         THEN gnPc' = "click" /\ gnLog' = gnLog
         ELSE GnCaught("enabled")
    /\ UNCHANGED <<gnPage, gnDocLang, gnLang, gnRet, gnCalls>>
    /\ UNCHANGED notGenerate

\* generate_button.click()
GnClick ==
    /\ gnPc = "click"
    /\ \E ok \in BOOLEAN :
         IF ok
         THEN /\ gnLog' = Append(gnLog, [act |-> "click_generate",
                                          text |-> get_ui_text_map["generate"][gnLang]])
              /\ gnPc' = "confirm"
         ELSE GnCaught("click")
    /\ UNCHANGED <<gnPage, gnDocLang, gnLang, gnRet, gnCalls>>
    /\ UNCHANGED notGenerate

\* A confirmation that clicks again when the button was not seen disabled.
GnAfterConfirmRetries(seen) == IF seen THEN "return" ELSE "click"

\* try: expect(generate_button).to_be_disabled(timeout=2000); print(...)
\* except: print(...): either way the function goes on to its end.
GnAfterConfirm(seen) == "return"

GnConfirm ==
    /\ gnPc = "confirm"
    /\ \E seen \in BOOLEAN :
         /\ gnLog' = Append(gnLog, [act |-> IF seen THEN "seen_disabled" ELSE "not_seen_disabled"])
         /\ gnPc' = GnAfterConfirm(seen)
    /\ UNCHANGED <<gnPage, gnDocLang, gnLang, gnRet, gnCalls>>
    /\ UNCHANGED notGenerate

\* generate_audio_overview returns None; generate_audio: return self
GnReturn ==
    /\ gnPc = "return"
    /\ gnRet' = "self"
    /\ gnPc' = "returned"
    /\ UNCHANGED <<gnPage, gnDocLang, gnLang, gnLog, gnCalls>>
    /\ UNCHANGED notGenerate

\* ------------------------------------------------------------------------
\* core.py: the step methods and their test of self.page
\* ------------------------------------------------------------------------
StepMethods == {"process_urls", "generate_audio", "download_audio", "upload_to_spotify"}

\* if not self.page: raise ValueError("Not connected to NotebookLM. ...")
\* in process_urls and generate_audio; return False, "Not connected ..."
\* in download_audio and upload_to_spotify.
NotConnected(method) ==
    IF method \in {"process_urls", "generate_audio"} THEN "ValueError" ELSE "not_connected_result"

\* What a step method does on an automator in state s: it leaves at its
\* test of self.page, or goes on to call the page.
StepOutcome(method, s) ==
    IF s.page = 0 THEN NotConnected(method) ELSE "uses_page"

MtIdle ==
    /\ mtMethod = "none"
    /\ mtOutcome = "none"
    /\ mtAfterClose = FALSE

\* A caller calls one of the step methods, in whatever state the automator is.
StepCall ==
    /\ wPc \in {"idle", "body", "done"}
    /\ \E m \in StepMethods :
         /\ mtMethod' = m
         /\ mtOutcome' = StepOutcome(m, sess)
    /\ mtAfterClose' = (lastCall = "close")
    /\ UNCHANGED notSteps

\* main.py has not been started.
CliIdle ==
    /\ cliPc = "none"
    /\ cliOut = << >>

\* The parts added last are not in use.
MoreIdle == GnIdle /\ MtIdle /\ CliIdle

\* The parts beside the automator are not in use.
RestIdle == SpIdle /\ StIdle /\ GuIdle /\ MoreIdle

\* ------------------------------------------------------------------------
\* core.py: run_automation_with_urls
\* ------------------------------------------------------------------------
\* The k-th project URL of a batch; the URLs of one batch differ.
BatchUrl(k) == <<"https://", "notebooklm.google.com", "/notebook/" \o ToString(k)>>

\* The lists of project URLs a batch is run on, the empty one included.
BatchLists == { [k \in 1..n |-> BatchUrl(k)] : n \in 0..MaxBatch }

\* str(url): the tokens of a text put together.
RECURSIVE UrlText(_)
UrlText(url) == IF url = << >> THEN "" ELSE Head(url) \o UrlText(Tail(url))

Min(a, b) == IF a <= b THEN a ELSE b
Max(a, b) == IF a >= b THEN a ELSE b

\* An _update_progress that hands the value on as computed.
ClampNot(progress) == progress

\* _update_progress: progress_callback(message, min(max(progress, 0), 100))
Clamp(progress) == Min(Max(progress, 0), 100)

BatchIdle ==
    /\ bUrls = << >>
    /\ bUpload = FALSE
    /\ bHasCb = FALSE
    /\ bPc = "idle"
    /\ bI = 0
    /\ bResult = [url |-> << >>, success |-> FALSE, error |-> None]
    /\ bTitle = ""
    /\ bDesc = ""
    /\ bResults = << >>
    /\ bEvents = << >>
    /\ bProgress = << >>
    /\ bRaw = << >>
    /\ bFaults = {}

\* run_automation_with_urls(urls_list, port, progress_callback, output_dir,
\* upload_to_spotify) is entered: results = []; total = len(urls_list)
BatchInit ==
    /\ bUrls \in BatchLists
    /\ bUpload \in BOOLEAN
    /\ bHasCb \in BOOLEAN
    /\ bPc = "enter"
    /\ bI = 0
    /\ bResult = [url |-> << >>, success |-> FALSE, error |-> None]
    /\ bTitle = ""
    /\ bDesc = ""
    /\ bResults = << >>
    /\ bEvents = << >>
    /\ bProgress = << >>
    /\ bRaw = << >>
    /\ bFaults = {}

total == Len(bUrls)

\* progress = int((i - 1) * 100 / total)
ProgressOf(i) == ((i - 1) * 100) \div total

\* A loop that leaves the last URL out.
BatchLoopStopsEarly(i) == IF i < total THEN "item" ELSE "exit"

\* for i, url in enumerate(urls_list, 1): the next item, or the end of the
\* with statement.
BatchLoop(i) == IF i <= total THEN "item" ELSE "exit"

Event(i, what) == [item |-> i, what |-> what]
Report(i, pct) == [item |-> i, pct |-> pct]

\* The items at which a step has failed or raised so far.
Faulty(failed) == IF failed THEN bFaults \cup {bI} ELSE bFaults

\* An append after which an item with an error ends the loop.
BatchAppendAborts(result, events) ==
    /\ bResults' = Append(bResults, result)
    /\ bResult' = result
    /\ bEvents' = Append(events, Event(bI, "append"))
    /\ bI' = bI + 1
    /\ bPc' = IF result.error # None THEN "exit" ELSE BatchLoop(bI + 1)

\* results.append(result), and the loop goes on.
BatchAppend(result, events) ==
    /\ bResults' = Append(bResults, result)
    /\ bResult' = result
    /\ bEvents' = Append(events, Event(bI, "append"))
    /\ bI' = bI + 1
    /\ bPc' = BatchLoop(bI + 1)

\* with NotebookLMAutomator(port) as automator: when connect raises, the
\* exception leaves run_automation_with_urls.
BatchEnter ==
    /\ bPc = "enter"
    /\ \E o \in ConnectOutcomes :
         /\ sess' = ConnectOf(NewAutomator(sess), o)
         /\ Called(IF o = "ok" THEN "connect_ok" ELSE "connect_failed")
         /\ bI' = IF o = "ok" THEN 1 ELSE bI
         /\ bPc' = IF o = "ok" THEN BatchLoop(1) ELSE "raised"
    /\ UNCHANGED <<bUrls, bUpload, bHasCb, bResult, bTitle, bDesc, bResults, bEvents, bProgress>>
    /\ UNCHANGED bRaw
    /\ UNCHANGED bFaults
    /\ UNCHANGED <<wPc, wInst, wBodyRaised, wOutcome>>
    /\ UNCHANGED <<restVars, linkVars, dlVars, siteVars>>

\* result = {"url": url, "success": False, "error": None}; the progress
\* report of the item; automator.download_audio(url, output_dir).
\* except Exception as e: result["error"] = str(e)
BatchItemStart ==
    /\ bPc = "item"
    /\ LET url == bUrls[bI]
           result == [url |-> url, success |-> FALSE, error |-> None]
           begun == Append(bEvents, Event(bI, "begin"))
       IN  \E cbRaises \in BOOLEAN :
             IF cbRaises /\ bHasCb
             THEN /\ BatchAppend([result EXCEPT !.error = "callback raised"], begun)
                  /\ bProgress' = Append(bProgress, Report(bI, Clamp(ProgressOf(bI))))
                  /\ bFaults' = Faulty(TRUE)
                  /\ UNCHANGED dlVars
             ELSE /\ bResult' = result
                  /\ bFaults' = bFaults
                  /\ bProgress' = IF bHasCb
                                  THEN Append(bProgress, Report(bI, Clamp(ProgressOf(bI))))
                                  ELSE bProgress
                  /\ bEvents' = Append(begun, Event(bI, "download"))
                  /\ CallDownload("batch", url)
                  /\ bPc' = "wait"
                  /\ UNCHANGED <<bI, bResults>>
    /\ UNCHANGED <<bUrls, bUpload, bHasCb, bTitle, bDesc, bRaw>>
    /\ UNCHANGED <<restVars, linkVars, sessVars, siteVars>>

\* if not title: title = f"NotebookLM Episode {i}"
TitleOrDefault(title, i) == IF title = "" THEN "NotebookLM Episode " \o ToString(i) ELSE title

\* if not description: description = f"Automatically generated ...: {url}"
DescriptionOrDefault(description, url) ==
    IF description = ""
    THEN "Automatically generated episode from NotebookLM: " \o UrlText(url)
    ELSE description

\* success, msg, title, description = automator.download_audio(...), the
\* branch on success, and the report before the upload.
BatchAfterDownload ==
    /\ bPc = "wait"
    /\ dlCaller = "batch"
    /\ dlPc = "returned"
    /\ IF UnpackRaises(dlRet, 4)
       THEN /\ BatchAppend([bResult EXCEPT !.error = "not enough values to unpack (expected 4)"],
                           Append(bEvents, Event(bI, "downloaded")))
            /\ bFaults' = Faulty(TRUE)
            /\ UNCHANGED <<bTitle, bDesc, bProgress>>
       ELSE LET success == dlRet[1]
                back == Append(bEvents, Event(bI, "downloaded"))
                msg == dlRet[2]
                got == [url |-> bResult.url, success |-> TRUE, error |-> bResult.error,
                        audio_file |-> msg]
            IN  IF ~success
                THEN /\ BatchAppend([bResult EXCEPT !.error = "Failed to download audio: " \o msg],
                                    back)
                     /\ bFaults' = Faulty(TRUE)
                     /\ UNCHANGED <<bTitle, bDesc, bProgress>>
                ELSE /\ bTitle' = TitleOrDefault(dlRet[3], bI)
                     /\ bDesc' = DescriptionOrDefault(dlRet[4], bResult.url)
                     /\ IF bUpload /\ success
                        THEN \E cbRaises \in BOOLEAN :
                               /\ bProgress' = IF bHasCb
                                               THEN Append(bProgress,
                                                           Report(bI, Clamp(ProgressOf(bI) + 50)))
                                               ELSE bProgress
                               /\ bFaults' = Faulty(cbRaises /\ bHasCb)
                               /\ IF cbRaises /\ bHasCb
                                  THEN BatchAppend([got EXCEPT !.error = "callback raised"], back)
                                  ELSE /\ bResult' = got
                                       /\ bPc' = "upload"
                                       /\ bEvents' = back
                                       /\ UNCHANGED <<bI, bResults>>
                        ELSE /\ BatchAppend(got, back)
                             /\ bFaults' = bFaults
                             /\ bProgress' = bProgress
    /\ UNCHANGED <<bUrls, bUpload, bHasCb, bRaw>>
    /\ UNCHANGED <<restVars, linkVars, sessVars, dlVars, siteVars>>

\* The reports of upload_episode, as the lambda hands them on:
\* progress + 50 + int(p * 0.5), clamped by _update_progress.
UploadReportsOf(i, reports) ==
    [k \in 1..Len(reports) |-> Report(i, Clamp(ProgressOf(i) + 50 + (reports[k] \div 2)))]

\* spotify_success, spotify_msg = automator.upload_to_spotify(...);
\* result["spotify_upload"] = {...}; if not spotify_success: result["error"] = ...
BatchUpload ==
    /\ bPc = "upload"
    /\ \E o \in UploadOutcomes :
         /\ UploadPossible(o, bResult.audio_file, bHasCb)
         /\ LET up == UploadToSpotify(sess.page, o)
                called == Append(bEvents, Event(bI, "upload"))
                failed == up.raised \/ ~up.ret[1]
                with == [url |-> bResult.url, success |-> bResult.success,
                         error |-> IF up.ret[1] THEN bResult.error
                                   ELSE "Spotify upload failed: " \o up.ret[2],
                         audio_file |-> bResult.audio_file,
                         spotify_upload |-> [success |-> up.ret[1], message |-> up.ret[2]],
                         spotify_title |-> bTitle,
                         spotify_description |-> bDesc]
            IN  /\ bRaw' = bRaw \o up.reports
                /\ bProgress' = IF bHasCb
                                THEN bProgress \o UploadReportsOf(bI, up.reports)
                                ELSE bProgress
                /\ bFaults' = Faulty(failed)
                /\ IF up.raised
                   THEN BatchAppend([bResult EXCEPT !.error = up.ret[2]], called)
                   ELSE BatchAppend(with, called)
    /\ UNCHANGED <<bUrls, bUpload, bHasCb, bTitle, bDesc>>
    /\ UNCHANGED <<restVars, linkVars, sessVars, dlVars, siteVars>>

\* The with statement ends: __exit__ closes the session; return results
BatchExit ==
    /\ bPc = "exit"
    /\ sess' = CloseOf(sess)
    /\ Called("close")
    /\ bPc' = "returned"
    /\ UNCHANGED <<bUrls, bUpload, bHasCb, bI, bResult, bTitle, bDesc, bResults, bEvents, bProgress>>
    /\ UNCHANGED bRaw
    /\ UNCHANGED bFaults
    /\ UNCHANGED <<wPc, wInst, wBodyRaised, wOutcome>>
    /\ UNCHANGED <<restVars, linkVars, dlVars, siteVars>>

\* ------------------------------------------------------------------------
\* The call sites of download_audio outside run_automation_with_urls
\* ------------------------------------------------------------------------
ProjectUrl == <<"https://", "notebooklm.google.com", "/notebook/1">>

ProjectResultInitial ==
    [ project_url |-> ProjectUrl, success |-> FALSE, audio_file |-> None,
      spotify_uploaded |-> FALSE, error |-> None ]

SitesIdle ==
    /\ pjPc = "idle"
    /\ pjUpload = FALSE
    /\ pjHasCb = FALSE
    /\ pjResult = ProjectResultInitial
    /\ wkPc = "idle"
    /\ wkApp = "none"
    /\ wkRet = << >>

\* process_notebooklm_project: result = {...}; _update_progress(..., 10);
\* self.download_audio(project_url, output_dir)
ProjStart ==
    /\ pjPc = "start"
    /\ \E cbRaises \in BOOLEAN :
         IF cbRaises /\ pjHasCb
         THEN /\ pjResult' = [pjResult EXCEPT !.error = "callback raised"]
              /\ pjPc' = "returned"
              /\ UNCHANGED dlVars
         ELSE /\ pjResult' = pjResult
              /\ pjPc' = "wait"
              /\ CallDownload("project", ProjectUrl)
    /\ UNCHANGED <<pjUpload, pjHasCb, wkPc, wkApp, wkRet>>
    /\ UNCHANGED <<restVars, linkVars, sessVars, batchVars>>

\* What process_notebooklm_project makes of a pair (success, audio_result).
ProjectResultOf(success, audio_result, o) ==
    IF ~success
    THEN [pjResult EXCEPT !.error = audio_result]
    ELSE IF ~pjUpload
    THEN [pjResult EXCEPT !.audio_file = audio_result, !.success = TRUE]
    ELSE LET up == UploadToSpotify(sess.page, o)
         IN  IF up.raised
             THEN [pjResult EXCEPT !.audio_file = audio_result, !.error = up.ret[2]]
             ELSE IF up.ret[1]
             THEN [pjResult EXCEPT !.audio_file = audio_result, !.spotify_uploaded = TRUE,
                                   !.success = TRUE]
             ELSE [pjResult EXCEPT !.audio_file = audio_result,
                                   !.error = "Spotify upload failed: " \o up.ret[2]]

\* success, audio_result = self.download_audio(project_url, output_dir), and
\* the rest of process_notebooklm_project; except Exception as e:
\* result["error"] = str(e)
ProjAfterDownload ==
    /\ pjPc = "wait"
    /\ dlCaller = "project"
    /\ dlPc = "returned"
    /\ IF UnpackRaises(dlRet, 2)
       THEN pjResult' = [pjResult EXCEPT !.error = "too many values to unpack (expected 2)"]
       ELSE \E o \in UploadOutcomes :
              /\ UploadPossible(o, dlRet[2], pjHasCb)
              /\ pjResult' = ProjectResultOf(dlRet[1], dlRet[2], o)
    /\ pjPc' = "returned"
    /\ UNCHANGED <<pjUpload, pjHasCb, wkPc, wkApp, wkRet>>
    /\ UNCHANGED <<restVars, linkVars, sessVars, dlVars, batchVars>>

\* _download_audio of a Streamlit app: with NotebookLMAutomator(...) as
\* automator. streamlit_app.py passes (port, use_playwright_chromium) to
\* __init__(self, port=9222), which raises TypeError; spotify_streamlit_app.py
\* passes (port). except Exception as e: return False, (str(e), "", "")
WorkerEnter ==
    /\ wkPc = "enter"
    /\ IF wkApp = "streamlit_app"
       THEN /\ wkRet' = <<FALSE, <<"__init__() takes from 1 to 2 positional arguments but 3 were given", "", "">>>>
            /\ wkPc' = "returned"
            /\ UNCHANGED sessVars
       ELSE \E o \in ConnectOutcomes :
              /\ sess' = ConnectOf(NewAutomator(sess), o)
              /\ Called(IF o = "ok" THEN "connect_ok" ELSE "connect_failed")
              /\ wkRet' = IF o = "ok" THEN wkRet ELSE <<FALSE, <<o, "", "">>>>
              /\ wkPc' = IF o = "ok" THEN "log" ELSE "returned"
              /\ UNCHANGED <<wPc, wInst, wBodyRaised, wOutcome>>
    /\ UNCHANGED <<pjPc, pjUpload, pjHasCb, pjResult, wkApp>>
    /\ UNCHANGED <<restVars, linkVars, dlVars, batchVars>>

\* log("Downloading audio from NotebookLM..."); automator.download_audio(url)
\* When log raises, __exit__ closes the session and the handler returns.
WorkerCallsDownload ==
    /\ wkPc = "log"
    /\ \E logRaises \in BOOLEAN :
         IF logRaises
         THEN /\ sess' = CloseOf(sess)
              /\ Called("close")
              /\ wkRet' = <<FALSE, <<"log raised", "", "">>>>
              /\ wkPc' = "returned"
              /\ UNCHANGED dlVars
         ELSE /\ wkPc' = "wait"
              /\ CallDownload("worker", ProjectUrl)
              /\ UNCHANGED <<sess, lastCall, prevCall, wkRet>>
    /\ UNCHANGED <<wPc, wInst, wBodyRaised, wOutcome>>
    /\ UNCHANGED <<pjPc, pjUpload, pjHasCb, pjResult, wkApp>>
    /\ UNCHANGED <<restVars, linkVars, batchVars>>

\* success, file_path, title, description = automator.download_audio(url)
\* if success: return True, (file_path, title, description)
\* return False, (file_path, "", ""); then __exit__ closes the session.
WorkerAfterDownload ==
    /\ wkPc = "wait"
    /\ dlCaller = "worker"
    /\ dlPc = "returned"
    /\ wkRet' = IF UnpackRaises(dlRet, 4)
                THEN <<FALSE, <<"not enough values to unpack (expected 4)", "", "">>>>
                ELSE IF dlRet[1]
                THEN <<TRUE, <<dlRet[2], dlRet[3], dlRet[4]>>>>
                ELSE <<FALSE, <<dlRet[2], "", "">>>>
    /\ sess' = CloseOf(sess)
    /\ Called("close")
    /\ wkPc' = "returned"
    /\ UNCHANGED <<wPc, wInst, wBodyRaised, wOutcome>>
    /\ UNCHANGED <<pjPc, pjUpload, pjHasCb, pjResult, wkApp>>
    /\ UNCHANGED <<restVars, linkVars, dlVars, batchVars>>

\* download_audio is called on an automator directly, by a Streamlit worker
\* or by process_notebooklm_project.
DownloadInit ==
    /\ RestIdle
    /\ LinksIdle
    /\ BatchIdle
    /\ lastCall = "init"
    /\ prevCall = "init"
    /\ wPc = "idle"
    /\ wInst = 0
    /\ wBodyRaised = FALSE
    /\ wOutcome = "none"
    /\ dlUrl = ProjectUrl
    /\ dlTitle = ""
    /\ dlDesc = ""
    /\ dlRet = << >>
    /\ dlTrace = << >>
    /\ files = {}
    /\ pjResult = ProjectResultInitial
    /\ wkRet = << >>
    /\ \E site \in {"client", "project", "worker"} :
         /\ dlPc = IF site = "client" THEN "entry" ELSE "idle"
         /\ dlCaller = IF site = "client" THEN "client" ELSE "none"
         /\ pjPc = IF site = "project" THEN "start" ELSE "idle"
         /\ wkPc = IF site = "worker" THEN "enter" ELSE "idle"
         /\ sess \in IF site = "worker" THEN {SessInitial} ELSE {SessInitial, Connected}
         /\ pjUpload \in IF site = "project" THEN BOOLEAN ELSE {FALSE}
         /\ pjHasCb \in IF site = "project" THEN BOOLEAN ELSE {FALSE}
         /\ wkApp \in IF site = "worker" THEN {"streamlit_app", "spotify_streamlit_app"}
                                         ELSE {"none"}

SitesNext ==
    \/ DlEntry
    \/ DlGoto
    \/ DlTitle
    \/ DlSummary
    \/ DlLoad
    \/ DlPlayer
    \/ DlOptions
    \/ DlMenu
    \/ DlHref
    \/ DlWrite
    \/ ProjStart
    \/ ProjAfterDownload
    \/ WorkerEnter
    \/ WorkerCallsDownload
    \/ WorkerAfterDownload

SpecDownload == DownloadInit /\ [][SitesNext]_vars

\* ------------------------------------------------------------------------
\* main.py: run_automation
\* ------------------------------------------------------------------------
\* The command line is parsed; get_urls is to be called.
CliInit ==
    /\ cliPc = "start"
    /\ cliOut = << >>

\* def progress_callback(current_index, total_count, current_url); then
\* run_automation_with_urls(urls_list, args.port, progress_callback): the
\* other arguments take their defaults, upload_to_spotify=True among them.
CliCall ==
    /\ cliPc = "start"
    /\ guEntry = "cli"
    /\ guPc = "working"
    /\ cliPc' = "running"
    /\ bUrls' = guRet
    /\ bUpload' = TRUE
    /\ bHasCb' = TRUE
    /\ bPc' = "enter"
    /\ UNCHANGED <<bI, bResult, bTitle, bDesc, bResults, bEvents, bProgress, bRaw, bFaults>>
    /\ UNCHANGED cliOut
    /\ UNCHANGED <<linkVars, sessVars, dlVars, siteVars, spVars, stVars, guVars, gnVars, mtVars>>

\* One item of the loop under the callback of main.py: _update_progress
\* calls progress_callback(message, percentage), two arguments for a function
\* of three, and the TypeError is caught by the handler of the item:
\* result["error"] = str(e); results.append(result)
CliItem ==
    /\ cliPc = "running"
    /\ bPc = "item"
    /\ LET result == [url |-> bUrls[bI], success |-> FALSE, error |-> None]
       IN  BatchAppend([result EXCEPT !.error = "TypeError"],
                       Append(bEvents, Event(bI, "begin")))
    /\ bProgress' = Append(bProgress, Report(bI, Clamp(ProgressOf(bI))))
    /\ bFaults' = Faulty(TRUE)
    /\ UNCHANGED <<bUrls, bUpload, bHasCb, bTitle, bDesc, bRaw>>
    /\ UNCHANGED <<restVars, linkVars, sessVars, dlVars, siteVars>>

\* run_automation_with_urls has returned: print("Finished adding sources.");
\* print("Audio Overview generation completed."); the execution time.
CliReport ==
    /\ cliPc = "running"
    /\ bPc = "returned"
    /\ cliOut' = cliOut \o <<"Finished adding sources.", "Audio Overview generation completed.">>
    /\ cliPc' = "done"
    /\ UNCHANGED <<coreVars, spVars, stVars, guVars, gnVars, mtVars>>

\* except PlaywrightError / except Exception: print(...); sys.exit(1)
CliExit ==
    /\ cliPc = "running"
    /\ bPc = "raised"
    /\ cliPc' = "exited"
    /\ UNCHANGED cliOut
    /\ UNCHANGED <<coreVars, spVars, stVars, guVars, gnVars, mtVars>>

\* ------------------------------------------------------------------------
\* Specifications of the parts that run on their own
\* ------------------------------------------------------------------------
\* add_link_sources on a list of URLs.
LinksSpecInit ==
    /\ RestIdle
    /\ LinksInit
    /\ SessIdle
    /\ DlIdle
    /\ SitesIdle
    /\ BatchIdle

SpecLinks == LinksSpecInit /\ [][LinksNext]_vars

\* One automator, called in any order, and used in with statements.
SessionInit ==
    /\ RestIdle
    /\ SessIdle
    /\ LinksIdle
    /\ DlIdle
    /\ SitesIdle
    /\ BatchIdle

SpecSession == SessionInit /\ [][SessionNext]_vars

BatchSpecInit ==
    /\ RestIdle
    /\ BatchInit
    /\ LinksIdle
    /\ SessIdle
    /\ DlIdle
    /\ SitesIdle

BatchNext ==
    \/ BatchEnter
    \/ BatchItemStart
    \/ DlEntry
    \/ DlGoto
    \/ DlTitle
    \/ DlSummary
    \/ DlLoad
    \/ DlPlayer
    \/ DlOptions
    \/ DlMenu
    \/ DlHref
    \/ DlWrite
    \/ BatchAfterDownload
    \/ BatchUpload
    \/ BatchExit

SpecBatch == BatchSpecInit /\ [][BatchNext]_vars

UploadInit ==
    /\ SpIdle
    /\ StIdle
    /\ GuIdle
    /\ MoreIdle
    /\ LinksIdle
    /\ SessIdle
    /\ SitesIdle
    /\ BatchIdle
    /\ dlPc = "idle"
    /\ dlCaller = "none"
    /\ dlUrl = << >>
    /\ dlTitle = ""
    /\ dlDesc = ""
    /\ dlRet = << >>
    /\ dlTrace = << >>
    /\ files \in {{}, {AudioPath}}

UploadNext ==
    \/ SpConstruct
    \/ SpCall
    \/ SpStart
    \/ SpNavigate
    \/ SpUploadFile
    \/ SpDetails
    \/ SpPublish
    \/ SpFinish
    \/ SpCleanup
    \/ SpDrop

SpecUpload == UploadInit /\ [][UploadNext]_vars

RunInit ==
    /\ StInit
    /\ SpIdle
    /\ GuIdle
    /\ MoreIdle
    /\ LinksIdle
    /\ SessIdle
    /\ DlIdle
    /\ SitesIdle
    /\ BatchIdle

RunNext ==
    \/ RtStart
    \/ ThEnter
    \/ ThWork
    \/ ThPut
    \/ ThExit
    \/ RtJoined
    \/ RtJoinTimeout
    \/ RtTest
    \/ StAfter

SpecRun == RunInit /\ [][RunNext]_vars

\* The two places where a publish step follows a download: one
\* run_automation_with_urls, or one run of the Streamlit script.
PublishInit == BatchSpecInit \/ RunInit

PublishNext ==
    \/ BatchEnter
    \/ BatchItemStart
    \/ DlEntry
    \/ DlGoto
    \/ DlTitle
    \/ DlSummary
    \/ DlLoad
    \/ DlPlayer
    \/ DlOptions
    \/ DlMenu
    \/ DlHref
    \/ DlWrite
    \/ BatchAfterDownload
    \/ BatchUpload
    \/ BatchExit
    \/ RtStart
    \/ ThEnter
    \/ ThWork
    \/ ThPut
    \/ ThExit
    \/ RtJoined
    \/ RtJoinTimeout
    \/ RtTest
    \/ StAfter

SpecPublish == PublishInit /\ [][PublishNext]_vars

\* One entry point and its call of get_urls.
UrlsInit ==
    /\ GuInit
    /\ MoreIdle
    /\ SpIdle
    /\ StIdle
    /\ LinksIdle
    /\ SessIdle
    /\ DlIdle
    /\ SitesIdle
    /\ BatchIdle

UrlsNext ==
    \/ GuEntry
    \/ GuRead
    \/ GuFilter
    \/ GuJina
    \/ GuProceed
    \/ GuLeave
    \/ GuAgain

SpecUrls == UrlsInit /\ [][UrlsNext]_vars

\* generate_audio, called on one automator.
GenerateInit ==
    /\ GnInit
    /\ MtIdle
    /\ CliIdle
    /\ SpIdle
    /\ StIdle
    /\ GuIdle
    /\ LinksIdle
    /\ SessIdle
    /\ DlIdle
    /\ SitesIdle
    /\ BatchIdle

GenerateNext ==
    \/ GnCall
    \/ GnDetect
    \/ GnEnabled
    \/ GnClick
    \/ GnConfirm
    \/ GnReturn

SpecGenerate == GenerateInit /\ [][GenerateNext]_vars

\* A run of the command line: get_urls, then run_automation_with_urls.
CliSpecInit ==
    /\ GuInit
    /\ guEntry = "cli"
    /\ CliInit
    /\ GnIdle
    /\ MtIdle
    /\ SpIdle
    /\ StIdle
    /\ LinksIdle
    /\ SessIdle
    /\ DlIdle
    /\ SitesIdle
    /\ BatchIdle

CliNext ==
    \/ GuEntry
    \/ GuRead
    \/ GuFilter
    \/ GuJina
    \/ GuProceed
    \/ GuLeave
    \/ CliCall
    \/ BatchEnter
    \/ CliItem
    \/ BatchExit
    \/ CliReport
    \/ CliExit

SpecCli == CliSpecInit /\ [][CliNext]_vars

\* One automator, called in any order, its step methods included.
StepsNext ==
    \/ Construct
    \/ Connect
    \/ Close
    \/ UserClosesTab
    \/ WithEnter
    \/ WithBody
    \/ WithExit
    \/ StepCall

SpecSteps == SessionInit /\ [][StepsNext]_vars

\* ------------------------------------------------------------------------
\* Properties of the session
\* ------------------------------------------------------------------------
\* C8: close() is safe in every state and any number of times: whenever it
\* was the last call (before a connect, after a failed or a successful
\* connect, after an earlier close) it returned without raising and left
\* playwright and browser None, and no playwright instance is stopped twice.
C8_CloseIsSafe ==
    /\ lastCall = "close" =>
          /\ sess.raised = "none"
          /\ sess.playwright = 0
          /\ sess.browser = 0
    /\ \A p \in 1..sess.started : sess.stops[p] <= 1

\* close() called again after the close() that followed a successful connect.
C8_Witness ==
    /\ lastCall = "close"
    /\ prevCall = "close"
    /\ sess.started >= 1
    /\ sess.stops[1] = 1
    /\ sess.tabsMade >= 1

\* C9: after a successful connect(), close() releases the tab that connect()
\* opened: when close() has returned, the page that context.new_page() made
\* is no longer open in the browser.
C9_CloseReleasesTab ==
    (lastCall = "close" /\ prevCall = "connect_ok") => sess.tabsMade \notin sess.openTabs

\* C10: when a with NotebookLMAutomator(...) statement has ended (its body
\* returned, its body raised, or connect failed on entry), the playwright
\* instance its connect started has been stopped, exactly once, and an
\* exception of the body has reached the caller: the statement ends
\* "returned" only when the body did not raise.
C10_WithAlwaysCloses ==
    wPc = "done" =>
       /\ wInst # 0 => (wInst \notin sess.running /\ sess.stops[wInst] = 1)
       /\ wBodyRaised => wOutcome = "raised_in_body"
       /\ wOutcome = "returned" => ~wBodyRaised
       /\ wOutcome \in {"returned", "raised_in_body", "raised_in_connect"}

\* The body raised, __exit__ closed the session and the exception went on.
C10_Witness ==
    /\ wPc = "done"
    /\ wBodyRaised
    /\ wOutcome = "raised_in_body"
    /\ wInst # 0
    /\ sess.stops[wInst] = 1

\* A step in which connect(), called on a controller that runs no playwright
\* instance (a new one, or one that was closed), started playwright and
\* failed for want of a browser context.
NoContextStep ==
    /\ lastCall \in {"init", "close"}
    /\ sess.playwright = 0
    /\ sess'.started = sess.started + 1
    /\ sess'.raised = "no_context"

\* C11: a connect() that finds no browser context opens no tab and makes no
\* navigation, its playwright instance is stopped (once) when the error
\* reaches the caller, and the controller is left with page = None.
C11_NoContextConnect ==
    [][ NoContextStep =>
          /\ sess'.tabsMade = sess.tabsMade
          /\ sess'.openTabs = sess.openTabs
          /\ sess'.navigations = sess.navigations
          /\ sess'.playwright = 0
          /\ sess'.started \notin sess'.running
          /\ sess'.stops[sess'.started] = 1
          /\ sess'.page = 0 ]_vars

\* ------------------------------------------------------------------------
\* Properties of download_audio and its call sites
\* ------------------------------------------------------------------------
\* The call of download_audio under way, or the last one, did e.
DlDid(e) == \E k \in 1..Len(dlTrace) : dlTrace[k] = e

UnpackError2 == "too many values to unpack (expected 2)"

\* C3: download_audio always returns a four-tuple whose first value is the
\* success flag, and every call site that got its return received the four
\* values and branched on the flag: process_notebooklm_project reports the
\* download's error when the flag is false and keeps the path when it is
\* true, and a Streamlit _download_audio worker passes the flag on, with the
\* title and the description only when it is true.
C3_CallSitesBranchOnSuccess ==
    /\ dlPc = "returned" => (Len(dlRet) = 4 /\ dlRet[1] \in BOOLEAN)
    /\ (pjPc = "returned" /\ dlCaller = "project") =>
          /\ pjResult.error # UnpackError2
          /\ ~dlRet[1] => pjResult.error = dlRet[2]
          /\ dlRet[1] => pjResult.audio_file = dlRet[2]
    /\ (wkPc = "returned" /\ dlCaller = "worker") =>
          /\ wkRet[1] = dlRet[1]
          /\ wkRet[2][1] = dlRet[2]
          /\ ~dlRet[1] => (wkRet[2][2] = "" /\ wkRet[2][3] = "")

\* C4: when the call of download_audio has returned and the audio options
\* button was never seen visible, the return is (False, message, "", "") with
\* a non-empty message, the menu was not clicked open, no download href was
\* read and no file was written; when the button was looked for and found
\* hidden, the message is the one of that test.
C4_NoOptionsButton ==
    (dlPc = "returned" /\ ~DlDid("options_seen")) =>
       /\ Len(dlRet) = 4
       /\ dlRet[1] = FALSE
       /\ dlRet[2] # ""
       /\ dlRet[3] = ""
       /\ dlRet[4] = ""
       /\ ~DlDid("menu_opened")
       /\ ~DlDid("href_read")
       /\ ~DlDid("file_written")
       /\ ~DlDid("file_partial")
       /\ DlDid("options_hidden") => dlRet[2] = "Could not find audio options button"

\* The player was ready, the options button was not visible, and the call
\* returned the failure.
C4_Witness ==
    /\ dlPc = "returned"
    /\ DlDid("player_ready")
    /\ DlDid("options_hidden")
    /\ dlTitle # ""
    /\ dlRet = <<FALSE, "Could not find audio options button", "", "">>
    /\ files = {}

\* ------------------------------------------------------------------------
\* Properties of SpotifyAutomator.upload_episode
\* ------------------------------------------------------------------------
SpDid(e) == \E k \in 1..Len(spTrace) : spTrace[k] = e

SpStages == {"navigate", "upload_file", "fill_details", "publish"}

\* A stage was entered and did not complete: it raised.
SpStageRaised == \E st \in SpStages : SpDid(st) /\ ~SpDid(st \o "_done")

SpAllStagesDone == \A st \in SpStages : SpDid(st \o "_done")

\* The call is past its try block.
SpLeftTry == spPc \in {"cleanup", "returned", "raised"}

\* C12: an exception raised in any of the four stages never leaves
\* upload_episode: the call returns (False, reason) with a non-empty reason;
\* whatever the call returns is a pair of a flag and a non-empty message, and
\* the flag is true only when all four stages completed.
C12_StageErrorsBecomeResults ==
    /\ spPc # "raised"
    /\ (SpLeftTry /\ SpStageRaised) =>
          /\ Len(spRet) = 2
          /\ spRet[1] = FALSE
          /\ spRet[2] # ""
          /\ spRet[2] \in { "Playwright error during Spotify upload: " \o spOutcome,
                            "Unexpected error during Spotify upload: " \o spOutcome }
    /\ spPc = "returned" =>
          /\ Len(spRet) = 2
          /\ spRet[1] \in BOOLEAN
          /\ spRet[2] # ""
          /\ spRet[1] => SpAllStagesDone

C12_Witness ==
    /\ spPc = "returned"
    /\ SpDid("publish")
    /\ SpStageRaised
    /\ spRet[1] = FALSE

SpCleanupEvents == {"cleanup_removed", "cleanup_nothing"}

SpCleanupCount ==
    Cardinality({ k \in 1..Len(spTrace) : spTrace[k] \in SpCleanupEvents })

\* C13: _cleanup runs exactly once per call of upload_episode on every exit
\* path, after the stages and before the result reaches the caller: while the
\* call is inside its try block no cleanup has run, and when it has returned
\* exactly one has, as the last thing the call did; the temp directory is
\* then gone, and a later call on the same automator, which finds no
\* directory, cleans up nothing and ends as a first call can.
C13_CleanupOncePerCall ==
    /\ spPc \in {"start", "navigate", "upload", "details", "publish", "finish", "cleanup"} =>
          SpCleanupCount = 0
    /\ spPc \in {"returned", "raised"} =>
          /\ SpCleanupCount = 1
          /\ spTrace[Len(spTrace)] \in SpCleanupEvents
          /\ spTemp = FALSE
          /\ spOutcome \in UploadOutcomes \ {"mkdtemp"}
    /\ (spPc = "returned" /\ SpDid("cleanup_nothing")) => spCalls >= 2

C13_Witness ==
    /\ spPc = "returned"
    /\ spCalls = 2
    /\ spRet[1] = TRUE
    /\ SpDid("cleanup_nothing")
    /\ spTemp = FALSE

\* ------------------------------------------------------------------------
\* Properties of run_in_thread and the Streamlit upload run
\* ------------------------------------------------------------------------
\* What func gave wrapper in the thread started last.
WorkerOutcome == threads[Current].result

\* C15 as stated: run_in_thread reports the timeout when the worker's
\* function had not ended when the join returned, and returns the worker's
\* own outcome when it had.
C15_OutcomeUnlessLate ==
    rtPc = "returned" =>
       /\ ~rtFuncDone => rtRet = TimedOut
       /\ (rtFuncDone /\ WorkerOutcome # << >>) => rtRet = WorkerOutcome

\* C15, amended: run_in_thread reports the timeout exactly when the worker
\* thread is still alive at the is_alive() test after the join, whether or
\* not its function has ended, and the test does nothing to the worker; when
\* the thread has ended by then, run_in_thread returns what the worker put
\* into the queue, its own outcome, or the no-message failure when the thread
\* ended without a put.
C15_AliveTestDecides ==
    [][ /\ rtPc' = "returned" =>
             /\ rtAlive' => rtRet' = TimedOut
             /\ ~rtAlive' =>
                  /\ threads'[Current'].pc = "dead"
                  /\ rtRet' = IF threads'[Current'].put = << >> THEN NoMessage
                              ELSE WorkerOutcome'
        /\ (rtPc = "joined" /\ rtPc' = "returned") =>
             /\ threads' = threads
             /\ rtAlive' = (threads[Current].pc # "dead") ]_vars

\* The function had ended when the join timed out, the thread had not: the
\* call reported the timeout; the abandoned worker went on and ended.
C15_Witness ==
    /\ rtPc = "returned"
    /\ rtFuncDone
    /\ rtAlive
    /\ rtRet = TimedOut
    /\ threads[Current].pc = "dead"
    /\ threads[Current].put # << >>

ThAlive(w) == threads[w].pc # "dead"

ThDriving(w) == threads[w].pc = "driving"

StepsOf(i) ==
    LET mine == SelectSeq(bEvents, LAMBDA e : e.item = i)
    IN  [k \in 1..Len(mine) |-> mine[k].what]

\* The steps of an item that goes through: download, then publish if requested.
FullSteps ==
    IF bUpload THEN <<"begin", "download", "downloaded", "upload", "append">>
    ELSE <<"begin", "download", "downloaded", "append">>

\* No step of an item comes after a step of a later item.
ItemsInTurn ==
    \A j, k \in 1..Len(bEvents) : j < k => bEvents[j].item <= bEvents[k].item

\* The returned list has one record per input URL, in input order.
OneRecordPerUrl ==
    /\ Len(bResults) = total
    /\ \A i \in 1..total : bResults[i].url = bUrls[i]

\* C5: when no step of the batch fails, run_automation_with_urls returns
\* exactly one record per input URL, the i-th carrying the i-th URL with
\* success = true, and every item goes through all its steps (download, then
\* publish if requested) before the next item begins.
C5_AllSucceedInOrder ==
    bFaults = {} =>
       /\ ItemsInTurn
       /\ bPc = "returned" =>
            /\ OneRecordPerUrl
            /\ \A i \in 1..total :
                 /\ bResults[i].success = TRUE
                 /\ StepsOf(i) = FullSteps

C5_Witness ==
    /\ bPc = "returned"
    /\ bFaults = {}
    /\ total = 2
    /\ bUpload
    /\ Len(bResults) = 2
    /\ bResults[2].spotify_upload.success

\* C6: a failure at one item is written into that item's record and the loop
\* goes on: while the loop runs every earlier item has its record, and the
\* returned list has one record per input URL in input order, every item was
\* begun, and every item at which a step failed carries an error.
C6_FailuresNeverAbort ==
    /\ bPc \in {"item", "wait", "upload"} => Len(bResults) = bI - 1
    /\ bPc = "returned" =>
         /\ OneRecordPerUrl
         /\ ItemsInTurn
         /\ \A i \in 1..total :
              /\ Len(StepsOf(i)) > 0
              /\ StepsOf(i)[1] = "begin"
              /\ i \in bFaults => bResults[i].error # None

C6_Witness ==
    /\ bPc = "returned"
    /\ total = 2
    /\ bFaults = {1}
    /\ ~bResults[1].success
    /\ bResults[1].error # None
    /\ bResults[2].success
    /\ StepsOf(2) = FullSteps

\* C7: every record has the keys url, success and error; a record with
\* success = true has audio_file; and a record has spotify_upload (a record of
\* success and message) exactly when publishing was requested and the
\* download of the item succeeded.
C7_RecordKeys ==
    \A k \in 1..Len(bResults) :
       LET r == bResults[k]
       IN  /\ {"url", "success", "error"} \subseteq DOMAIN r
           /\ r.success => "audio_file" \in DOMAIN r
           /\ ("spotify_upload" \in DOMAIN r) <=> (bUpload /\ r.success)
           /\ "spotify_upload" \in DOMAIN r =>
                 DOMAIN r.spotify_upload = {"success", "message"}

\* C14: every percentage handed to a progress callback lies in [0, 100]: the
\* values run_automation_with_urls hands to the caller's callback, for every
\* batch size and item, the values of the upload reports among them, and the
\* values upload_episode hands to the callback it was given.
C14_PercentInRange ==
    /\ \A k \in 1..Len(bProgress) : bProgress[k].pct \in 0..100
    /\ \A k \in 1..Len(bRaw) : bRaw[k] \in 0..100

\* The last report of the last item of a batch of two: 50 + 50 + int(100 * 0.5)
\* is 150, and 100 is handed on.
C14_Witness ==
    /\ bPc = "returned"
    /\ total = 2
    /\ bHasCb
    /\ ProgressOf(2) + 50 + (100 \div 2) > 100
    /\ Len(bRaw) = 4
    /\ bRaw[4] = 100
    /\ bProgress[Len(bProgress)] = Report(2, 100)

\* ------------------------------------------------------------------------
\* Properties of get_urls and the entry points
\* ------------------------------------------------------------------------
\* get_urls has returned a list.
GuReturned == guPc \in {"returned", "working"}

\* get_urls returns no empty list and no empty URL.
GetUrlsNeverEmpty ==
    GuReturned => /\ guRet # << >>
                  /\ \A k \in 1..Len(guRet) : guRet[k] # << >>

\* The CLI and the Streamlit handler go on to the browser only with a list
\* that get_urls returned.
EntryPointsGuarded ==
    guPc = "working" => guRet # << >> /\ guRaised = "none"

\* run_automation_with_urls on an empty list has started no playwright
\* instance, opened no tab and navigated nowhere.
EmptyBatchOpensNothing ==
    bUrls = << >> => sess.started = 0 /\ sess.tabsMade = 0 /\ sess.navigations = 0

\* C17: no entry point starts work on an empty URL list: get_urls never
\* returns an empty list, the CLI and the Streamlit handler reach the browser
\* only with a returned list, and run_automation_with_urls opens no browser
\* session when its list is empty.
C17_NoWorkOnEmptyList ==
    /\ GetUrlsNeverEmpty
    /\ EntryPointsGuarded
    /\ EmptyBatchOpensNothing

\* The times the prefix stands at the head of a URL, one after the other.
RECURSIVE LeadingPrefixes(_)
LeadingPrefixes(url) ==
    IF StartsWith(url, JinaPrefix)
    THEN 1 + LeadingPrefixes(SubSeq(url, Len(JinaPrefix) + 1, Len(url)))
    ELSE 0

\* The URL without the prefix at its head.
Unprefixed(url) ==
    IF StartsWith(url, JinaPrefix) THEN SubSeq(url, Len(JinaPrefix) + 1, Len(url)) ELSE url

NumUrls == Len(lkUrls)

\* The entries of the log that item i left.
LogOf(i) == SelectSeq(lkLog, LAMBDA e : e.index = i)

ButtonClicksOf(i) == SelectSeq(lkLog, LAMBDA e : e.index = i /\ e.act = "click_button")

\* The entries that end an item: it went through, or its failure was caught.
IsTerminal(e) == e.act \in {"item_done", "error"}
Terminals == SelectSeq(lkLog, IsTerminal)

\* Item i has got past its button step: it clicked, or it failed before the click.
PastButton(i) == i < lkIndex \/ (i = lkIndex /\ lkPc \in {"chip", "fill", "insert", "spinner"})

FailedBeforeClick(i) ==
    \E k \in 1..Len(lkLog) :
        /\ lkLog[k].index = i
        /\ lkLog[k].act = "error"
        /\ lkLog[k].at \in {"callback", "button"}

CreateLabel == IF lkLang = "ja" THEN "Shinki sakusei" ELSE "Create new notebook"
AddSourceLabel == IF lkLang = "ja" THEN "Sosu wo tsuika" ELSE "Add source"

\* C1: in add_link_sources the button an item clicks is decided by its position
\* alone: every button click of the item at index 0 is the click of the
\* locale-resolved "create notebook" button, every button click of an item at
\* index 1..N-1 is the click of the locale-resolved "add source" button, and
\* every item that gets past its button step without a failure has clicked its
\* button exactly once, whatever happened to the items before it.
C1_FirstCreatesRestAdd ==
    /\ \A k \in 1..Len(lkLog) :
          lkLog[k].act = "click_button" =>
             IF lkLog[k].index = 0
             THEN lkLog[k].key = "create_notebook" /\ lkLog[k].text = CreateLabel
             ELSE lkLog[k].key = "add_source" /\ lkLog[k].text = AddSourceLabel
    /\ \A i \in 0..(NumUrls - 1) :
          /\ Len(ButtonClicksOf(i)) <= 1
          /\ (PastButton(i) /\ ~FailedBeforeClick(i)) => Len(ButtonClicksOf(i)) = 1

\* Three items, the first failed before anything was created, and the second
\* and the third still clicked "add source".
C1_Witness ==
    /\ NumUrls = 3
    /\ lkPc = "done"
    /\ FailedBeforeClick(0)
    /\ Len(ButtonClicksOf(0)) = 0
    /\ ButtonClicksOf(1) # <<>> /\ ButtonClicksOf(1)[1].key = "add_source"
    /\ ButtonClicksOf(2) # <<>> /\ ButtonClicksOf(2)[1].key = "add_source"

\* C2: a failure raised at any step of one item of add_link_sources is caught:
\* it never leaves the call, the items end one after the other in input order,
\* and the call returns only after every item of the list was taken up.
C2_FailureDoesNotAbort ==
    /\ \A k \in 1..Len(Terminals) : Terminals[k].index = k - 1
    /\ lkPc = "raised" => lkLog = <<>>
    /\ lkPc = "done" => /\ Len(Terminals) = NumUrls
                        /\ \A i \in 0..(NumUrls - 1) : LogOf(i) # <<>>
    /\ lkPc \in {"callback", "button", "chip", "fill", "insert", "spinner"} =>
          /\ Len(Terminals) = lkIndex
          /\ lkIndex < NumUrls

\* A fault on item 2 of 3: items 1 and 3 went through and the call returned.
C2_Witness ==
    /\ NumUrls = 3
    /\ lkPc = "done"
    /\ Len(Terminals) = 3
    /\ Terminals[1].act = "item_done"
    /\ Terminals[2].act = "error"
    /\ Terminals[3].act = "item_done"

\* detect_ui_language has returned.
LangDetected == lkPc \notin {"idle", "detect", "raised"}

\* Every key of the text table has an entry for the locale.
LocaleComplete(locale) ==
    \A key \in DOMAIN get_ui_text_map : locale \in DOMAIN get_ui_text_map[key]

\* C19 as stated: Japanese is selected for "ja-JP" and English for every
\* other value of the lang attribute, "ja", "en", the empty and the absent
\* one included, and the locale selected has an entry under every key.
C19_JapaneseOnlyForJaJP ==
    LangDetected =>
      /\ lkLang = (IF lkDocLang = <<"j", "a", "-", "J", "P">> THEN "ja" ELSE "en")
      /\ LocaleComplete(lkLang)

\* The lang attribute is a text that begins with "ja".
BeginsWithJa(docLang) ==
    /\ docLang # NoText
    /\ Len(docLang) >= 2
    /\ SubSeq(docLang, 1, 2) = <<"j", "a">>

\* C19: detect_ui_language selects Japanese exactly for the values of the
\* lang attribute that begin with "ja" ("ja" and "ja-JP") and English for
\* every other value, the empty and the absent one included; the locale
\* selected is one of the two, and has an entry under every key of the table.
C19_JapaneseForJaPrefix ==
    LangDetected =>
      /\ lkLang = (IF BeginsWithJa(lkDocLang) THEN "ja" ELSE "en")
      /\ lkLang \in {"ja", "en"}
      /\ LocaleComplete(lkLang)

\* The page reported "ja" and a button was clicked by its Japanese label.
C19_Witness ==
    /\ lkDocLang = <<"j", "a">>
    /\ lkLang = "ja"
    /\ \E k \in 1..Len(lkLog) :
         /\ lkLog[k].act = "click_button"
         /\ lkLog[k].text = "Shinki sakusei"

\* The URL names one of the two video hosts.
NamesVideoHost(url) == \E k \in 1..Len(url) : url[k] \in {"youtube.com", "youtu.be"}

\* C20: the chip add_link_sources clicks for a URL is the YouTube chip exactly
\* when the URL contains youtube.com or youtu.be and the Website chip
\* otherwise, in the locale detected; the URL with the Jina prefix before it
\* gets the chip of the URL without it.
C20_ChipByHost ==
    \A k \in 1..Len(lkLog) :
      lkLog[k].act = "click_chip" =>
        LET url == lkUrls[lkLog[k].index + 1]
            chip == IF NamesVideoHost(Unprefixed(url)) THEN "youtube" ELSE "website"
        IN  /\ lkLog[k].key = chip
            /\ lkLog[k].text = get_ui_text_map[chip][lkLang]
            /\ NamesVideoHost(url) <=> NamesVideoHost(Unprefixed(url))

\* The YouTube chip was clicked for a youtu.be URL that carries the prefix.
C20_Witness ==
    /\ lkUrls = << JinaPrefix \o <<"https://", "youtu.be", "/x">> >>
    /\ \E k \in 1..Len(lkLog) :
         /\ lkLog[k].act = "click_chip"
         /\ lkLog[k].key = "youtube"

\* ------------------------------------------------------------------------
\* Properties of the command line run
\* ------------------------------------------------------------------------
\* main.py has printed that the sources were added.
CliReported == \E k \in 1..Len(cliOut) : cliOut[k] = "Finished adding sources."

\* C21: a run of the command line connects the session, adds every input URL
\* as a link source, triggers the audio overview generation, and only then
\* prints "Finished adding sources." and "Audio Overview generation
\* completed.": when these lines are printed, a session was connected,
\* add_link_sources has run over the list get_urls returned and
\* generate_audio has been called and has returned.
C21_CliWorkflowOrder ==
    CliReported =>
      /\ sess.started > 0
      /\ lkPc = "done"
      /\ lkUrls = guRet
      /\ gnCalls > 0
      /\ gnPc = "returned"

\* ------------------------------------------------------------------------
\* Properties of the artifact and of the records of a batch
\* ------------------------------------------------------------------------
\* The publish step of record r has finished.
Published(r) == "spotify_upload" \in DOMAIN r

\* C22: after the publish step of an item has finished, the file that
\* download_audio wrote for it is no longer on disk.
C22_ArtifactRemovedAfterPublish ==
    \A k \in 1..Len(bResults) :
       Published(bResults[k]) => bResults[k].audio_file \notin files

\* C27: in every record of run_automation_with_urls success = true implies
\* error = None.
C27_SuccessMeansNoError ==
    \A k \in 1..Len(bResults) :
       bResults[k].success => bResults[k].error = None

\* C30: the percentages handed to the progress callback during one
\* run_automation_with_urls never decrease, and 100 is handed over only for
\* the last item.
C30_ProgressNonDecreasing ==
    /\ \A j, k \in 1..Len(bProgress) :
          j < k => bProgress[j].pct <= bProgress[k].pct
    /\ \A k \in 1..Len(bProgress) :
          bProgress[k].pct = 100 => bProgress[k].item = total

\* ------------------------------------------------------------------------
\* Properties of the order of the stages
\* ------------------------------------------------------------------------
\* s is the beginning of t.
IsPrefix(s, t) == Len(s) <= Len(t) /\ SubSeq(t, 1, Len(s)) = s

\* The stages of download_audio that every successful call goes through.
DlStages ==
    <<"navigated", "title", "description", "player_ready", "options_seen", "menu_opened",
      "href_read", "href_obtained", "file_written">>

\* What the call did, the optional load left out.
DlCore == SelectSeq(dlTrace, LAMBDA e : e # "load")

\* Where a call can leave the line of the stages: the options button is not
\* there, or the write breaks off.
DlLeaves == {"options_hidden", "file_partial"}

DlPosition(e) == CHOOSE k \in 1..Len(dlTrace) : dlTrace[k] = e

\* C23: download_audio goes through its stages in the one order navigated,
\* title, description, optional load, player ready, menu opened, href
\* obtained, file written, each at most once; the title and the description
\* are read before any click; after a failure no later stage has run; and
\* success = True is returned only when the file was written last.
C23_StagesInOrder ==
    /\ \/ IsPrefix(DlCore, DlStages)
       \/ /\ DlCore # << >>
          /\ DlCore[Len(DlCore)] \in DlLeaves
          /\ IsPrefix(SubSeq(DlCore, 1, Len(DlCore) - 1), DlStages)
    /\ DlDid("load") => /\ Len(dlTrace) >= 4
                        /\ dlTrace[4] = "load"
                        /\ Len(DlCore) = Len(dlTrace) - 1
    /\ \A e \in {"load", "menu_opened"} :
          DlDid(e) => /\ DlDid("title") /\ DlPosition("title") < DlPosition(e)
                      /\ DlDid("description") /\ DlPosition("description") < DlPosition(e)
    /\ dlPc = "returned" =>
          IF dlRet[1]
          THEN dlTrace # << >> /\ dlTrace[Len(dlTrace)] = "file_written"
          ELSE ~DlDid("file_written")

\* A call with the load step went through to the written file.
C23_Witness ==
    /\ dlPc = "returned"
    /\ dlRet[1]
    /\ DlDid("load")
    /\ DlCore = DlStages

\* The steps of upload_episode, in the order of the wizard.
SpSteps ==
    <<"navigate", "navigate_done", "upload_file", "file_chooser", "upload_file_done",
      "fill_details", "fill_details_done", "publish", "publish_done">>

\* What the call did before its cleanup.
SpWork == SelectSeq(spTrace, LAMBDA e : e \notin {"cleanup_removed", "cleanup_nothing"})

\* C24: upload_episode runs navigate, upload file, fill details and publish in
\* this order, each at most once and each only after the stage before it has
\* completed; the publish button is clicked only when the upload of the file
\* and the form of the details have both completed; a missing audio file
\* fails the call before the file chooser is opened.
C24_WizardInOrder ==
    /\ IsPrefix(SpWork, SpSteps)
    /\ SpDid("publish_done") => SpDid("upload_file_done") /\ SpDid("fill_details_done")
    /\ spOutcome = "file_missing" =>
          /\ ~SpDid("file_chooser")
          /\ spRet # << >>
          /\ ~spRet[1]

\* The audio file was missing: the call failed after it had navigated, and
\* no file chooser was opened.
C24_Witness ==
    /\ spPc = "returned"
    /\ spOutcome = "file_missing"
    /\ SpDid("navigate_done")
    /\ SpDid("upload_file")
    /\ ~SpDid("file_chooser")

\* ------------------------------------------------------------------------
\* Properties of generate_audio
\* ------------------------------------------------------------------------
GnClicks == SelectSeq(gnLog, LAMBDA e : e.act = "click_generate")

GnNotSeen == \E k \in 1..Len(gnLog) : gnLog[k].act = "not_seen_disabled"

\* C25: generate_audio_overview clicks the generate button of the locale
\* detected, at most once in a call; when the button is not seen to become
\* disabled the function still goes to its end with that one click made, and
\* generate_audio returns self; generate_audio raises only for want of a page.
C25_GenerateBestEffort ==
    /\ Len(GnClicks) <= 1
    /\ \A k \in 1..Len(GnClicks) :
          GnClicks[k].text =
             get_ui_text_map["generate"][IF BeginsWithJa(gnDocLang) THEN "ja" ELSE "en"]
    /\ GnNotSeen => /\ Len(GnClicks) = 1
                    /\ gnPc \in {"return", "returned"}
    /\ gnPc = "returned" => gnRet = "self"
    /\ gnPc = "raised" => ~gnPage

\* The Japanese button was clicked, was not seen disabled, and generate_audio
\* returned self.
C25_Witness ==
    /\ gnPc = "returned"
    /\ gnRet = "self"
    /\ GnNotSeen
    /\ Len(GnClicks) = 1
    /\ GnClicks[1].text = get_ui_text_map["generate"]["ja"]

\* ------------------------------------------------------------------------
\* Properties of the progress callback of add_link_sources
\* ------------------------------------------------------------------------
\* The entry is a call of the callback: one that returned or one that raised.
IsCallbackCall(e) == e.act = "callback" \/ (e.act = "error" /\ e.at = "callback")

CallbackCalls == SelectSeq(lkLog, IsCallbackCall)

\* The items taken up so far.
ItemsBegun ==
    IF lkPc \in {"button", "chip", "fill", "insert", "spinner"} THEN lkIndex + 1
    ELSE IF lkPc \in {"callback", "done"} THEN lkIndex
    ELSE 0

\* C26: add_link_sources calls its progress callback exactly once for every
\* item it takes up, in input order, with (index, total, url) of the item, and
\* before anything is done to the page for that item; when the callback
\* raises, the item ends as with any other failure and the loop goes on.
C26_CallbackOncePerItem ==
    /\ Len(CallbackCalls) = (IF lkHasCb THEN ItemsBegun ELSE 0)
    /\ \A k \in 1..Len(CallbackCalls) : CallbackCalls[k].index = k - 1
    /\ \A k \in 1..Len(lkLog) :
          lkLog[k].act = "callback" =>
             /\ lkLog[k].total = Len(lkUrls)
             /\ lkLog[k].url = lkUrls[lkLog[k].index + 1]
    /\ lkHasCb =>
          \A k \in 1..Len(lkLog) :
             ~IsCallbackCall(lkLog[k]) =>
                \E j \in 1..(k - 1) :
                   /\ lkLog[j].act = "callback"
                   /\ lkLog[j].index = lkLog[k].index
    /\ \A k \in 1..Len(lkLog) :
          (lkLog[k].act = "error" /\ lkLog[k].at = "callback") =>
             /\ Len(LogOf(lkLog[k].index)) = 1
             /\ lkPc # "raised"
             /\ lkIndex > lkLog[k].index

\* The callback raised at the second of three items; it was called for each
\* of the three, and the call returned.
C26_Witness ==
    /\ lkHasCb
    /\ NumUrls = 3
    /\ lkPc = "done"
    /\ Len(CallbackCalls) = 3
    /\ CallbackCalls[2].act = "error"
    /\ CallbackCalls[3].act = "callback"

\* ------------------------------------------------------------------------
\* Properties of the publish step of an item
\* ------------------------------------------------------------------------
\* What a download worker gives when download_audio has succeeded.
DownloadSucceeded == <<TRUE, <<TRUE, "done">>>>

\* C28: the publish step of an item is started only when the download of the
\* same item has returned success = True: in run_automation_with_urls
\* upload_to_spotify is called only with the record of a download that
\* succeeded, and in the Streamlit run a publish worker is started only after
\* the download worker of the same item has ended and has given its success,
\* never after its failure, its exception or its timeout.
C28_PublishOnlyAfterDownload ==
    /\ bPc = "upload" => /\ dlPc = "returned"
                         /\ dlRet[1]
                         /\ dlRet[2] \in files
                         /\ bResult.success
    /\ \A k \in 1..Len(bEvents) :
          bEvents[k].what = "upload" =>
             /\ bResults[bEvents[k].item].success
             /\ "audio_file" \in DOMAIN bResults[bEvents[k].item]
             /\ \E j \in 1..(k - 1) : bEvents[j] = Event(bEvents[k].item, "downloaded")
    /\ \A w \in 1..Len(threads) :
          threads[w].kind = "upload" =>
             /\ w > 1
             /\ threads[w - 1].kind = "download"
             /\ threads[w - 1].item = threads[w].item
             /\ threads[w - 1].pc = "dead"
             /\ (w - 1) \notin rtAbandoned
             /\ threads[w - 1].put = <<DownloadSucceeded>>

\* The download of the first notebook timed out and no publish worker was
\* started for it; the second notebook was downloaded and its publish worker
\* runs.
C28_Witness ==
    /\ Len(threads) = 3
    /\ 1 \in rtAbandoned
    /\ threads[1].item = 1
    /\ threads[2].kind = "download" /\ threads[2].item = 2
    /\ threads[3].kind = "upload" /\ threads[3].item = 2
    /\ threads[3].pc = "driving"

\* ------------------------------------------------------------------------
\* Properties of the step methods after close()
\* ------------------------------------------------------------------------
\* C29: a step method called after close() has returned does nothing to the
\* page: process_urls and generate_audio raise the not-connected ValueError,
\* download_audio and upload_to_spotify return their not-connected result,
\* whatever state the automator was in when close() was called.
C29_NoStepAfterClose ==
    (mtMethod # "none" /\ mtAfterClose) => mtOutcome = NotConnected(mtMethod)

====
